---- MODULE Spec2Model ----
(***************************************************************************)
(* Model of rfpy/options.py: the six command-line option resolvers         *)
(* get_calc_options, get_recalc_options, get_hk_options,                   *)
(* get_harmonics_options, get_ccp_options and get_plot_options.            *)
(*                                                                         *)
(* Representation of Python values:                                        *)
(*   None          [ty |-> "None"]                                        *)
(*   a float       [ty |-> "float", neg |-> s, m |-> m, e |-> e]: the      *)
(*                 IEEE 754 double (-1)^s * m * 2^e, m an odd natural      *)
(*                 number below 2^53 written as limbs in base 2^15, least  *)
(*                 significant first (<<>> with e = 0 for 0.0 and -0.0):   *)
(*                 30. is m = <<15>>, e = 1; 0.5 is m = <<1>>, e = -1      *)
(*   an int        [ty |-> "int", v |-> n]                                 *)
(*   nan           [ty |-> "nan"]                                         *)
(*   inf, -inf     [ty |-> "inf", neg |-> FALSE], [... neg |-> TRUE]       *)
(*   a raw string  [ty |-> "str", v |-> <<c1, ..., cn>>], one character    *)
(*                 per element: a character up to U+00FF is itself, one    *)
(*                 above is named by its code point ("U+0661", Char);      *)
(*                 enumerated and time strings keep the whole word in v    *)
(*   a list        [ty |-> "list", v |-> <<e1, ..., en>>], each element a  *)
(*                 value of this table                                     *)
(*   True, False   TRUE, FALSE                                             *)
(* Options that the resolvers only pass through (Server, minmag, vp, ...)  *)
(* are not part of the records.                                            *)
(***************************************************************************)
EXTENDS Integers, Sequences, FiniteSets, TLC

VARIABLES variant, args, argv, out

vars == <<variant, args, argv, out>>

(* Largest number of options given on one command line. *)
MaxOpts == 3

None == [ty |-> "None"]
NaN == [ty |-> "nan"]
Float(neg, m, e) == [ty |-> "float", neg |-> neg, m |-> m, e |-> e]
Inf(neg) == [ty |-> "inf", neg |-> neg]
Integer(n) == [ty |-> "int", v |-> n]
Str(s) == [ty |-> "str", v |-> s]
List(l) == [ty |-> "list", v |-> l]

Max(a, b) == IF a < b THEN b ELSE a

Min(a, b) == IF a < b THEN a ELSE b

(* Python truthiness of an Optional[float]: None, 0.0 and -0.0 are falsy,  *)
(* nan and the infinities are not.                                         *)
Truthy(x) == x.ty \in {"nan", "inf"} \/ (x.ty = "float" /\ Len(x.m) > 0)

(* Truthiness of a str: the empty string is falsy. *)
TruthyStr(x) == x.ty = "str" /\ x.v # ""

(* x in [...] for a str option that may be None *)
is_in(x, values) == x.ty = "str" /\ x.v \in values

(***************************************************************************)
(* str.split                                                               *)
(***************************************************************************)
RECURSIVE split(_, _)
split(s, sep) ==
    IF \E i \in 1..Len(s) : s[i] = sep
    THEN LET i == CHOOSE k \in 1..Len(s) :
                      s[k] = sep /\ \A j \in 1..(k - 1) : s[j] # sep
         IN  <<SubSeq(s, 1, i - 1)>> \o split(SubSeq(s, i + 1, Len(s)), sep)
    ELSE <<s>>

(***************************************************************************)
(* Natural numbers of any size, for the arithmetic of float(): a sequence  *)
(* of limbs in base 2^15, least significant first, without a zero at the   *)
(* most significant end; <<>> is 0.                                        *)
(***************************************************************************)
Base == 32768

(* x without the zeros at its most significant end *)
trim(x) ==
    SubSeq(x, 1, Cardinality({i \in 1..Len(x) :
                                \E j \in i..Len(x) : x[j] # 0}))

(* The limbs of x * c + k and the carry out of them, for 0 < c < Base and  *)
(* 0 <= k < Base; the limbs are taken by halves.                           *)
RECURSIVE scaled(_, _, _)
scaled(x, c, k) ==
    IF Len(x) = 0 THEN [v |-> <<>>, k |-> k]
    ELSE IF Len(x) = 1
    THEN [v |-> <<(x[1] * c + k) % Base>>, k |-> (x[1] * c + k) \div Base]
    ELSE LET lo == scaled(SubSeq(x, 1, Len(x) \div 2), c, k)
             hi == scaled(SubSeq(x, Len(x) \div 2 + 1, Len(x)), c, lo.k)
         IN  [v |-> lo.v \o hi.v, k |-> hi.k]

(* x * c + k *)
mul_small(x, c, k) ==
    LET s == scaled(x, c, k)
    IN  IF s.k = 0 THEN s.v ELSE Append(s.v, s.k)

(* Long division of r * Base^Len(x) + x by c, for 0 <= r < c <= Base: the   *)
(* quotient limbs, most significant first, and the remainder.              *)
RECURSIVE divided(_, _, _)
divided(x, c, r) ==
    IF Len(x) = 0 THEN [q |-> <<>>, r |-> r]
    ELSE IF Len(x) = 1
    THEN [q |-> <<(r * Base + x[1]) \div c>>, r |-> (r * Base + x[1]) % c]
    ELSE LET hi == divided(SubSeq(x, Len(x) \div 2 + 1, Len(x)), c, r)
             lo == divided(SubSeq(x, 1, Len(x) \div 2), c, hi.r)
         IN  [q |-> hi.q \o lo.q, r |-> lo.r]

(* quotient (not trimmed) and remainder of x by c *)
div_small(x, c) ==
    LET d == divided(x, c, 0)
    IN  [q |-> [i \in 1..Len(x) |-> d.q[Len(x) + 1 - i]], r |-> d.r]

RECURSIVE bits(_)
bits(n) == IF n = 0 THEN 0 ELSE 1 + bits(n \div 2)

bit_length(x) ==
    IF Len(x) = 0 THEN 0 ELSE 15 * (Len(x) - 1) + bits(x[Len(x)])

is_odd(x) == Len(x) > 0 /\ x[1] % 2 = 1

(* x * 2^s *)
shift_left(x, s) ==
    IF Len(x) = 0 THEN <<>>
    ELSE [i \in 1..(s \div 15) |-> 0] \o mul_small(x, 2 ^ (s % 15), 0)

(* x \div 2^s, and whether a one was shifted out *)
shift_right(x, s) ==
    LET n == Min(s \div 15, Len(x))
        d == div_small(SubSeq(x, n + 1, Len(x)), 2 ^ (s % 15))
    IN  [q |-> trim(d.q),
         sticky |-> d.r # 0 \/ \E i \in 1..n : x[i] # 0]

(* x < y *)
less(x, y) ==
    IF Len(x) # Len(y) THEN Len(x) < Len(y)
    ELSE \E i \in 1..Len(x) :
             x[i] < y[i] /\ \A j \in (i + 1)..Len(x) : x[j] = y[j]

limb(x, i) == IF i <= Len(x) THEN x[i] ELSE 0

(* k as limbs, for 0 <= k < 2^45 *)
nat(k) == trim(<<k % Base, (k \div Base) % Base, k \div (Base * Base)>>)

(* Limbs i..j of x + y + k and the carry out of them. *)
RECURSIVE added(_, _, _, _, _)
added(x, y, i, j, k) ==
    IF i > j THEN [v |-> <<>>, k |-> k]
    ELSE IF i = j
    THEN [v |-> <<(limb(x, i) + limb(y, i) + k) % Base>>,
          k |-> (limb(x, i) + limb(y, i) + k) \div Base]
    ELSE LET lo == added(x, y, i, (i + j) \div 2, k)
             hi == added(x, y, (i + j) \div 2 + 1, j, lo.k)
         IN  [v |-> lo.v \o hi.v, k |-> hi.k]

(* x + y *)
add(x, y) ==
    LET s == added(x, y, 1, Max(Len(x), Len(y)), 0)
    IN  IF s.k = 0 THEN s.v ELSE Append(s.v, s.k)

(* Limbs i..j of x - y - k and the borrow out of them. *)
RECURSIVE subtracted(_, _, _, _, _)
subtracted(x, y, i, j, k) ==
    IF i > j THEN [v |-> <<>>, k |-> k]
    ELSE IF i = j
    THEN [v |-> <<(limb(x, i) - limb(y, i) - k) % Base>>,
          k |-> IF limb(x, i) - limb(y, i) - k < 0 THEN 1 ELSE 0]
    ELSE LET lo == subtracted(x, y, i, (i + j) \div 2, k)
             hi == subtracted(x, y, (i + j) \div 2 + 1, j, lo.k)
         IN  [v |-> lo.v \o hi.v, k |-> hi.k]

(* x - y, for x >= y *)
sub(x, y) == trim(subtracted(x, y, 1, Len(x), 0).v)

(* x * 5^k and x \div 5^k, at most six powers at a time (5^6 < Base) *)
RECURSIVE times5(_, _)
times5(x, k) ==
    IF Len(x) = 0 THEN x
    ELSE IF k <= 6 THEN mul_small(x, 5 ^ k, 0)
    ELSE times5(times5(x, k \div 2), k - k \div 2)

RECURSIVE over5(_, _)
over5(x, k) ==
    IF Len(x) = 0 THEN [q |-> x, sticky |-> FALSE]
    ELSE IF k <= 6
    THEN [q |-> trim(div_small(x, 5 ^ k).q),
          sticky |-> div_small(x, 5 ^ k).r # 0]
    ELSE LET a == over5(x, k \div 2)
             b == over5(a.q, k - k \div 2)
         IN  [q |-> b.q, sticky |-> a.sticky \/ b.sticky]

(* The count of zero bits at the least significant end of x # 0. *)
trailing_zeros(x) ==
    LET i == CHOOSE i \in 1..Len(x) :
                 x[i] # 0 /\ \A j \in 1..(i - 1) : x[j] = 0
        b == CHOOSE b \in 0..14 :
                 x[i] % (2 ^ (b + 1)) # 0 /\ x[i] % (2 ^ b) = 0
    IN  15 * (i - 1) + b

(***************************************************************************)
(* IEEE 754 binary64                                                       *)
(***************************************************************************)
Zero(neg) == Float(neg, <<>>, 0)

(* The float of n * 2^e for n # 0 that ends in z zero bits. *)
odd_part(neg, n, e, z) == Float(neg, shift_right(n, z).q, e + z)

(* The float of the natural number n times 2^e, n of at most 53 bits. *)
exact(neg, n, e) ==
    IF Len(n) = 0 THEN Zero(neg)
    ELSE odd_part(neg, n, e, trailing_zeros(n))

(* m * 2^u as a float: infinite from 2^1024 on. *)
finite(neg, m, u) ==
    IF bit_length(m) + u > 1024 THEN Inf(neg) ELSE exact(neg, m, u)

(* x \div 2 *)
halved(x) == trim(div_small(x, 2).q)

(* low.q is the number cut one bit below the last place kept, low.sticky   *)
(* whether a one was cut off, sticky whether the number is more than what  *)
(* was given: more than half a place rounds up, a tie goes to the even     *)
(* mantissa.                                                               *)
nudged(low, sticky) ==
    IF is_odd(low.q) /\ (sticky \/ low.sticky \/ is_odd(halved(low.q)))
    THEN mul_small(halved(low.q), 1, 1)
    ELSE halved(low.q)

(* x.q * 2^e rounded to the place 2^u *)
round_at(neg, x, e, u) ==
    finite(neg,
           IF u <= e THEN x.q
           ELSE nudged(shift_right(x.q, u - e - 1), x.sticky),
           Max(u, e))

(* The float nearest to x.q * 2^e, or to a number between x.q * 2^e and    *)
(* (x.q + 1) * 2^e when x.sticky. The last place kept is 2^u: 53 bits,     *)
(* fewer below 2^-1022 (subnormal). With x.sticky, x.q has at least 55     *)
(* bits.                                                                   *)
rounded(neg, x, e) ==
    round_at(neg, x, e, Max(bit_length(x.q) + e - 53, 0 - 1074))

(* The element that stands for the character of code point cp > 255 in a   *)
(* raw string: U+ and the code point in hexadecimal, four digits or more.  *)
Char(cp) ==
    LET HexDigits ==
            <<"0", "1", "2", "3", "4", "5", "6", "7",
              "8", "9", "A", "B", "C", "D", "E", "F">>
        RECURSIVE hex(_)
        hex(n) ==
            IF n < 16 THEN HexDigits[n + 1]
            ELSE hex(n \div 16) \o HexDigits[(n % 16) + 1]
    IN  "U+" \o (IF cp < 4096 THEN "0" ELSE "") \o hex(cp)

(* The code points above U+00FF of the digits zero of Unicode 14.0.0       *)
(* (str.isdecimal): the digits one to nine follow each of them.            *)
DecimalZeros ==
    {
     \H660, \H6F0, \H7C0, \H966, \H9E6, \HA66, \HAE6,
     \HB66, \HBE6, \HC66, \HCE6, \HD66, \HDE6, \HE50,
     \HED0, \HF20, \H1040, \H1090, \H17E0, \H1810, \H1946,
     \H19D0, \H1A80, \H1A90, \H1B50, \H1BB0, \H1C40, \H1C50,
     \HA620, \HA8D0, \HA900, \HA9D0, \HA9F0, \HAA50, \HABF0,
     \HFF10, \H104A0, \H10D30, \H11066, \H110F0, \H11136, \H111D0,
     \H112F0, \H11450, \H114D0, \H11650, \H116C0, \H11730, \H118E0,
     \H11950, \H11C50, \H11D50, \H11DA0, \H16A60, \H16AC0, \H16B50,
     \H1D7CE, \H1D7D8, \H1D7E2, \H1D7EC, \H1D7F6, \H1E140, \H1E2F0,
     \H1E950, \H1FBF0}

(* The characters float() reads as decimal digits. *)
Digits ==
    {"0", "1", "2", "3", "4", "5", "6", "7", "8", "9"}
        \cup {Char(z + d) : z \in DecimalZeros, d \in 0..9}

DigitVal(c) ==
    CASE c = "0" -> 0 [] c = "1" -> 1 [] c = "2" -> 2 [] c = "3" -> 3
      [] c = "4" -> 4 [] c = "5" -> 5 [] c = "6" -> 6 [] c = "7" -> 7
      [] c = "8" -> 8 [] c = "9" -> 9
      [] OTHER -> CHOOSE d \in 0..9 : \E z \in DecimalZeros : c = Char(z + d)

(* The characters float() strips: the six ASCII blanks (the vertical tab   *)
(* is the sixth element), U+0085 and U+00A0, and the code points above     *)
(* them that str.isspace accepts (each is Char of its code point). U+001C  *)
(* to U+001F are not stripped.                                             *)
Whitespace ==
    {" ", "\t", "\n", "\r", "\f", "", "", " ",
     "U+1680", "U+2000", "U+2001", "U+2002", "U+2003", "U+2004", "U+2005",
     "U+2006", "U+2007", "U+2008", "U+2009", "U+200A", "U+2028", "U+2029",
     "U+202F", "U+205F", "U+3000"}

RECURSIVE lstrip(_)
lstrip(s) ==
    IF Len(s) > 0 /\ Head(s) \in Whitespace THEN lstrip(Tail(s)) ELSE s

RECURSIVE rstrip(_)
rstrip(s) ==
    IF Len(s) > 0 /\ s[Len(s)] \in Whitespace
    THEN rstrip(SubSeq(s, 1, Len(s) - 1))
    ELSE s

strip(s) == rstrip(lstrip(s))

negative(s) == Len(s) > 0 /\ Head(s) = "-"

unsigned(s) == IF Len(s) > 0 /\ Head(s) \in {"+", "-"} THEN Tail(s) ELSE s

lower(c) ==
    CASE c = "I" -> "i" [] c = "N" -> "n" [] c = "F" -> "f"
      [] c = "T" -> "t" [] c = "Y" -> "y" [] c = "A" -> "a"
      [] OTHER -> c

lowered(s) == [i \in 1..Len(s) |-> lower(s[i])]

is_nan_word(u) == lowered(u) = <<"n", "a", "n">>

is_inf_word(u) ==
    lowered(u) \in {<<"i", "n", "f">>,
                    <<"i", "n", "f", "i", "n", "i", "t", "y">>}

(* The float of an int literal or of an int of the range of the model.     *)
Num(n) ==
    LET a == IF n < 0 THEN 0 - n ELSE n
    IN  exact(n < 0, nat(a), 0)

(* Reading an unsigned decimal numeral character by character: d is the    *)
(* number made of the digits of the integer and fraction parts, n the      *)
(* count of its digits from the first non-zero one, f the count of         *)
(* fraction digits, e the exponent (a number of any size, as d) and eneg   *)
(* its sign; st tells what was read last. An underscore is accepted only   *)
(* between two digits.                                                     *)
Unread ==
    [st |-> "start", d |-> <<>>, n |-> 0, f |-> 0, e |-> <<>>, eneg |-> FALSE]

(* A digit of value v is read. *)
read_digit(p, v) ==
    CASE p.st \in {"start", "int", "int_"} ->
            [p EXCEPT !.st = "int", !.d = mul_small(@, 10, v),
                      !.n = IF @ = 0 /\ v = 0 THEN 0 ELSE @ + 1]
      [] p.st \in {"dot", "point", "frac", "frac_"} ->
            [p EXCEPT !.st = "frac", !.d = mul_small(@, 10, v),
                      !.n = IF @ = 0 /\ v = 0 THEN 0 ELSE @ + 1,
                      !.f = @ + 1]
      [] p.st \in {"e", "esign", "exp", "exp_"} ->
            [p EXCEPT !.st = "exp", !.e = mul_small(@, 10, v)]
      [] OTHER -> [p EXCEPT !.st = "bad"]

read(p, c) ==
    IF c \in Digits THEN read_digit(p, DigitVal(c))
    ELSE IF c = "_"
    THEN CASE p.st = "int" -> [p EXCEPT !.st = "int_"]
           [] p.st = "frac" -> [p EXCEPT !.st = "frac_"]
           [] p.st = "exp" -> [p EXCEPT !.st = "exp_"]
           [] OTHER -> [p EXCEPT !.st = "bad"]
    ELSE IF c = "."
    THEN CASE p.st = "start" -> [p EXCEPT !.st = "dot"]
           [] p.st = "int" -> [p EXCEPT !.st = "point"]
           [] OTHER -> [p EXCEPT !.st = "bad"]
    ELSE IF c \in {"e", "E"} /\ p.st \in {"int", "point", "frac"}
    THEN [p EXCEPT !.st = "e"]
    ELSE IF c \in {"+", "-"} /\ p.st = "e"
    THEN [p EXCEPT !.st = "esign", !.eneg = (c = "-")]
    ELSE [p EXCEPT !.st = "bad"]

(* The characters are read in order, the string taken by halves; nothing   *)
(* is accepted after a character that was not.                             *)
RECURSIVE scan(_, _)
scan(s, p) ==
    IF p.st = "bad" \/ Len(s) = 0 THEN p
    ELSE IF Len(s) = 1 THEN read(p, s[1])
    ELSE scan(SubSeq(s, Len(s) \div 2 + 1, Len(s)),
              scan(SubSeq(s, 1, Len(s) \div 2), p))

(* float(tok) raises ValueError unless tok, stripped of white space, is a  *)
(* signed decimal numeral (with optional fraction and exponent), inf,      *)
(* infinity or nan.                                                        *)
is_float(tok) ==
    LET u == unsigned(strip(tok))
    IN  \/ is_nan_word(u)
        \/ is_inf_word(u)
        \/ scan(u, Unread).st \in {"int", "point", "frac", "exp"}

(* The power of ten that multiplies the digits read, for a numeral that    *)
(* neither overflows nor underflows: its exponent has three limbs at most. *)
scale(p) ==
    ((IF p.eneg THEN 0 - 1 ELSE 1)
        * (limb(p.e, 1) + Base * limb(p.e, 2) + Base * Base * limb(p.e, 3)))
    - p.f

(* The bits added to d before a division by 5^-k, for k < 0. *)
slack(d, k) == Max(0, 57 + ((7 * (0 - k)) \div 3) - bit_length(d))

(* The float nearest to d * 10^k: d * 5^k is computed exactly, or          *)
(* d * 2^s \div 5^-k with s large enough to leave 55 bits or more, and     *)
(* rounded once.                                                           *)
scaled_digits(neg, d, k) ==
    rounded(neg,
            IF k >= 0 THEN [q |-> times5(d, k), sticky |-> FALSE]
            ELSE over5(shift_left(d, slack(d, k)), 0 - k),
            IF k >= 0 THEN k ELSE k - slack(d, k))

(* The float nearest to the numeral read, whatever the size of the         *)
(* exponent e (a number of limbs, compared as such). The numeral           *)
(* d * 10^(e - f), e signed, lies in [10^(k-1), 10^k) for k = n + e - f.   *)
(* It is infinite for k > 309 (10^309 or more) and zero for k <= -324      *)
(* (below 10^-324).                                                        *)
nearest(neg, p) ==
    IF Len(p.d) = 0 THEN Zero(neg)
    ELSE IF (IF p.eneg
             THEN p.n - p.f - 309 > 0 /\ less(p.e, nat(p.n - p.f - 309))
             ELSE 309 + p.f - p.n < 0 \/ less(nat(309 + p.f - p.n), p.e))
    THEN Inf(neg)
    ELSE IF (IF p.eneg
             THEN p.n + 324 - p.f <= 0 \/ ~less(p.e, nat(p.n + 324 - p.f))
             ELSE p.f - p.n - 324 >= 0 /\ ~less(nat(p.f - p.n - 324), p.e))
    THEN Zero(neg)
    ELSE scaled_digits(neg, p.d, scale(p))

float(tok) ==
    LET t == strip(tok)
        u == unsigned(t)
    IN  IF is_nan_word(u) THEN NaN
        ELSE IF is_inf_word(u) THEN Inf(negative(t))
        ELSE nearest(negative(t), scan(u, Unread))

(* A float literal of the source. *)
Literal(chars) == float(chars)

(* |a| < |b| on finite floats *)
smaller(a, b) ==
    IF Len(b.m) = 0 THEN FALSE
    ELSE IF Len(a.m) = 0 THEN TRUE
    ELSE IF bit_length(a.m) + a.e # bit_length(b.m) + b.e
    THEN bit_length(a.m) + a.e < bit_length(b.m) + b.e
    ELSE less(shift_left(a.m, a.e - Min(a.e, b.e)),
              shift_left(b.m, b.e - Min(a.e, b.e)))

(* a < b on floats: false whenever one side is nan; 0.0 and -0.0 are equal *)
lt(a, b) ==
    IF a.ty = "nan" \/ b.ty = "nan" THEN FALSE
    ELSE IF a.ty = "inf" THEN a.neg /\ ~(b.ty = "inf" /\ b.neg)
    ELSE IF b.ty = "inf" THEN ~b.neg
    ELSE IF a.neg # b.neg THEN a.neg /\ (Len(a.m) > 0 \/ Len(b.m) > 0)
    ELSE smaller(IF a.neg THEN b ELSE a, IF a.neg THEN a ELSE b)

(* x * 2^e - y * 2^e with the signs given, rounded once *)
signed_difference(aneg, bneg, x, y, e) ==
    IF aneg = bneg /\ x = y THEN Zero(FALSE)
    ELSE rounded(IF aneg = bneg /\ less(x, y) THEN ~aneg ELSE aneg,
                 [q |-> IF aneg # bneg THEN add(x, y)
                        ELSE IF less(x, y) THEN sub(y, x)
                        ELSE sub(x, y),
                  sticky |-> FALSE],
                 e)

(* a - b on finite floats: the exact difference, rounded once *)
difference(a, b) ==
    signed_difference(a.neg, b.neg,
                      shift_left(a.m, a.e - Min(a.e, b.e)),
                      shift_left(b.m, b.e - Min(a.e, b.e)),
                      Min(a.e, b.e))

(* x - y on floats, y finite *)
minus(x, y) == IF x.ty = "float" THEN difference(x, y) ELSE x

(***************************************************************************)
(* sorted(list of floats): list.sort of CPython 3.11, which compares with  *)
(* '<' only, so that the place a nan ends at is the one these comparisons  *)
(* leave it in. Positions count from 0 as in the C code: at(a, i) is a[i]. *)
(* The merge state ms is a record with the list a, the comparison          *)
(* key_compare, the stack pending of runs [base, len, power] and           *)
(* min_gallop.                                                             *)
(***************************************************************************)
MIN_GALLOP == 7

at(a, i) == a[i + 1]

(* The comparison list.sort selects for a list of floats: x < y for any    *)
(* two elements of l.                                                      *)
unsafe_float_compare(l) ==
    [x \in {l[i] : i \in 1..Len(l)} |->
        [y \in {l[i] : i \in 1..Len(l)} |-> lt(x, y)]]

(* ISLT(X, Y): X < Y as ms compares *)
ISLT(ms, x, y) == ms.key_compare[x][y]

(* a with src[from .. from + k) written at a[dest .. dest + k): memcpy,    *)
(* and memmove when src is a.                                              *)
copied(a, dest, src, from, k) ==
    [i \in 1..Len(a) |->
        IF dest < i /\ i <= dest + k THEN src[from + i - dest] ELSE a[i]]

(* a with a[lo .. hi) reversed *)
reverse_slice(a, lo, hi) ==
    [i \in 1..Len(a) |->
        IF lo < i /\ i <= hi THEN a[lo + hi + 1 - i] ELSE a[i]]

(* n shifted right until it is below 64, plus one if a one was shifted out *)
merge_compute_minrun(n) ==
    LET RECURSIVE minrun_from(_, _)
        minrun_from(m, r) ==
            IF m >= 64 THEN minrun_from(m \div 2, IF m % 2 = 1 THEN 1 ELSE r)
            ELSE m + r
    IN  minrun_from(n, 0)

(* The length n of the run that starts at a[lo], and whether it descends:  *)
(* the run is ascending (a[lo] <= a[lo+1] <= ...) or strictly descending   *)
(* (a[lo] > a[lo+1] > ...).                                                *)
count_run(ms, a, lo, hi) ==
    LET descending == lo + 1 < hi /\ ISLT(ms, at(a, lo + 1), at(a, lo))
        run_stops(i) ==
            i = hi \/ (ISLT(ms, at(a, i), at(a, i - 1)) # descending)
    IN  [n |-> IF hi - lo < 2 THEN hi - lo
               ELSE (CHOOSE i \in (lo + 2)..hi :
                         /\ run_stops(i)
                         /\ \A j \in (lo + 2)..(i - 1) : ~run_stops(j)) - lo,
         descending |-> descending]

(* a[lo .. hi) sorted, given that a[lo .. start) is: each later element    *)
(* (the pivot) is put at its place in what is sorted, after its equals.    *)
RECURSIVE binarysort(_, _, _, _, _)
binarysort(ms, a, lo, hi, start) ==
    LET RECURSIVE bisect(_, _, _)
        bisect(pivot, l, r) ==
            IF l >= r THEN l
            ELSE IF ISLT(ms, pivot, at(a, l + ((r - l) \div 2)))
            THEN bisect(pivot, l, l + ((r - l) \div 2))
            ELSE bisect(pivot, l + ((r - l) \div 2) + 1, r)
        (* a[start] moved down to a[l], a[l .. start) moved up by one *)
        moved(l) ==
            [i \in 1..Len(a) |->
                IF i = l + 1 THEN a[start + 1]
                ELSE IF l + 1 < i /\ i <= start + 1 THEN a[i - 1]
                ELSE a[i]]
    IN  IF start >= hi THEN a
        ELSE IF start = lo THEN binarysort(ms, a, lo, hi, start + 1)
        ELSE binarysort(ms, moved(bisect(at(a, start), lo, start)),
                        lo, hi, start + 1)

(* The binary search that ends gallop_left: a[base + lastofs - 1] < key <= *)
(* a[base + ofs].                                                          *)
RECURSIVE left_search(_, _, _, _, _, _)
left_search(ms, key, a, base, lastofs, ofs) ==
    IF lastofs >= ofs THEN ofs
    ELSE IF ISLT(ms, at(a, base + lastofs + ((ofs - lastofs) \div 2)), key)
    THEN left_search(ms, key, a, base,
                     lastofs + ((ofs - lastofs) \div 2) + 1, ofs)
    ELSE left_search(ms, key, a, base,
                     lastofs, lastofs + ((ofs - lastofs) \div 2))

(* The galloping of gallop_left: the offsets 1, 3, 7, ... from a[base +    *)
(* hint] are tried until maxofs, to the right (dir = 1) as long as the     *)
(* element is below key, to the left (dir = -1) as long as it is not. The  *)
(* last offset that passed and the one that stopped the loop, counted from *)
(* base, are the bounds of the binary search.                              *)
RECURSIVE left_gallop(_, _, _, _, _, _, _, _, _)
left_gallop(ms, key, a, base, hint, dir, maxofs, lastofs, ofs) ==
    IF /\ ofs < maxofs
       /\ ISLT(ms, at(a, base + hint + dir * ofs), key) = (dir = 1)
    THEN left_gallop(ms, key, a, base, hint, dir, maxofs, ofs, 2 * ofs + 1)
    ELSE left_search(ms, key, a, base,
                     (IF dir = 1 THEN lastofs + hint
                      ELSE hint - Min(ofs, maxofs)) + 1,
                     IF dir = 1 THEN Min(ofs, maxofs) + hint
                     ELSE hint - lastofs)

(* The k in 0..n with a[base + k - 1] < key <= a[base + k] in the sorted   *)
(* a[base .. base + n): before the elements equal to key. The search       *)
(* starts at a[base + hint].                                               *)
gallop_left(ms, key, a, base, n, hint) ==
    IF ISLT(ms, at(a, base + hint), key)
    THEN left_gallop(ms, key, a, base, hint, 1, n - hint, 0, 1)
    ELSE left_gallop(ms, key, a, base, hint, 0 - 1, hint + 1, 0, 1)

(* The binary search that ends gallop_right: a[base + lastofs - 1] <= key  *)
(* < a[base + ofs].                                                        *)
RECURSIVE right_search(_, _, _, _, _, _)
right_search(ms, key, a, base, lastofs, ofs) ==
    IF lastofs >= ofs THEN ofs
    ELSE IF ISLT(ms, key, at(a, base + lastofs + ((ofs - lastofs) \div 2)))
    THEN right_search(ms, key, a, base,
                      lastofs, lastofs + ((ofs - lastofs) \div 2))
    ELSE right_search(ms, key, a, base,
                      lastofs + ((ofs - lastofs) \div 2) + 1, ofs)

(* The galloping of gallop_right: to the left as long as key is below the  *)
(* element, to the right as long as it is not.                             *)
RECURSIVE right_gallop(_, _, _, _, _, _, _, _, _)
right_gallop(ms, key, a, base, hint, dir, maxofs, lastofs, ofs) ==
    IF /\ ofs < maxofs
       /\ ISLT(ms, key, at(a, base + hint + dir * ofs)) = (dir # 1)
    THEN right_gallop(ms, key, a, base, hint, dir, maxofs, ofs, 2 * ofs + 1)
    ELSE right_search(ms, key, a, base,
                      (IF dir = 1 THEN lastofs + hint
                       ELSE hint - Min(ofs, maxofs)) + 1,
                      IF dir = 1 THEN Min(ofs, maxofs) + hint
                      ELSE hint - lastofs)

(* The k in 0..n with a[base + k - 1] <= key < a[base + k]: after the      *)
(* elements equal to key.                                                  *)
gallop_right(ms, key, a, base, n, hint) ==
    IF ISLT(ms, key, at(a, base + hint))
    THEN right_gallop(ms, key, a, base, hint, 0 - 1, hint + 1, 0, 1)
    ELSE right_gallop(ms, key, a, base, hint, 1, n - hint, 0, 1)

(* The runs a[ssa .. ssa + na) and a[ssb .. ssb + nb), na <= nb, merged    *)
(* from the low end. m is the state of the merge: m.a is the list, m.t the *)
(* copy of run A; na elements of A are left from t[pa] and nb of B from    *)
(* a[pb], the next element merged goes to a[dest]; acount and bcount count *)
(* the wins in a row of each run; pc tells where the merge is: "pair" (the *)
(* loop that compares one pair at a time), "gallop" (the galloping loop,   *)
(* before its gallop_right), "gallop_left" (the same loop before its       *)
(* gallop_left), or the label it is left through, "Succeed" or "CopyB".    *)
(* lo_step is one turn of the pair loop or one half of a turn of the       *)
(* galloping loop.                                                         *)
lo_step(m) ==
    LET (* the k next elements of A, of B, go to dest *)
        lo_take_a(s, k) ==
            [s EXCEPT !.a = copied(@, s.dest, s.t, s.pa, k),
                      !.dest = @ + k, !.pa = @ + k, !.na = @ - k]
        lo_take_b(s, k) ==
            [s EXCEPT !.a = copied(@, s.dest, s.a, s.pb, k),
                      !.dest = @ + k, !.pb = @ + k, !.nb = @ - k]
        (* The pair loop is left for the galloping loop with ++min_gallop, *)
        (* which the galloping loop takes back on its way in.              *)
        lo_after_a(s) ==
            IF s.na = 1 THEN [s EXCEPT !.pc = "CopyB"]
            ELSE IF s.acount >= s.min_gallop
            THEN [s EXCEPT !.pc = "gallop", !.min_gallop = @ + 1]
            ELSE s
        lo_after_b(s) ==
            IF s.nb = 0 THEN [s EXCEPT !.pc = "Succeed"]
            ELSE IF s.bcount >= s.min_gallop
            THEN [s EXCEPT !.pc = "gallop", !.min_gallop = @ + 1]
            ELSE s
        (* After gallop_right gave k: min_gallop -= min_gallop > 1, the k  *)
        (* elements of A that come before the head of B, then that head.   *)
        lo_b_taken(s) ==
            IF s.nb = 0 THEN [s EXCEPT !.pc = "Succeed"]
            ELSE [s EXCEPT !.pc = "gallop_left"]
        lo_as_taken(s) ==
            IF s.na = 1 THEN [s EXCEPT !.pc = "CopyB"]
            ELSE IF s.na = 0 THEN [s EXCEPT !.pc = "Succeed"]
            ELSE lo_b_taken(lo_take_b(s, 1))
        lo_gallop_as(s, k) ==
            lo_as_taken([lo_take_a(s, k) EXCEPT
                            !.acount = k,
                            !.min_gallop = IF @ > 1 THEN @ - 1 ELSE @])
        (* After gallop_left gave k: the k elements of B that come before  *)
        (* the head of A, then that head; the loop goes on while a gallop  *)
        (* gave MIN_GALLOP or more, and is left with ++min_gallop.         *)
        lo_a_taken(s) ==
            IF s.na = 1 THEN [s EXCEPT !.pc = "CopyB"]
            ELSE IF s.acount >= MIN_GALLOP \/ s.bcount >= MIN_GALLOP
            THEN [s EXCEPT !.pc = "gallop"]
            ELSE [s EXCEPT !.pc = "pair", !.min_gallop = @ + 1,
                           !.acount = 0, !.bcount = 0]
        lo_bs_taken(s) ==
            IF s.nb = 0 THEN [s EXCEPT !.pc = "Succeed"]
            ELSE lo_a_taken(lo_take_a(s, 1))
        lo_gallop_bs(s, k) ==
            lo_bs_taken([lo_take_b(s, k) EXCEPT !.bcount = k])
    IN  CASE m.pc = "pair" ->
                IF ISLT(m, at(m.a, m.pb), at(m.t, m.pa))
                THEN lo_after_b([lo_take_b(m, 1) EXCEPT !.bcount = @ + 1,
                                                        !.acount = 0])
                ELSE lo_after_a([lo_take_a(m, 1) EXCEPT !.acount = @ + 1,
                                                        !.bcount = 0])
          [] m.pc = "gallop" ->
                lo_gallop_as(m, gallop_right(m, at(m.a, m.pb), m.t, m.pa,
                                             m.na, 0))
          [] m.pc = "gallop_left" ->
                lo_gallop_bs(m, gallop_left(m, at(m.t, m.pa), m.a, m.pb,
                                            m.nb, 0))

(* k steps, or as many as there are until the merge is left *)
RECURSIVE lo_steps(_, _)
lo_steps(m, k) ==
    IF m.pc \in {"Succeed", "CopyB"} THEN m
    ELSE IF k <= 1 THEN lo_step(m)
    ELSE lo_steps(lo_steps(m, k \div 2), k - (k \div 2))

merge_lo(ms, ssa, na, ssb, nb) ==
    LET (* The first element of B is merged before the loops. *)
        lo_start ==
            [a |-> copied(ms.a, ssa, ms.a, ssb, 1),
             t |-> SubSeq(ms.a, ssa + 1, ssa + na),
             key_compare |-> ms.key_compare, min_gallop |-> ms.min_gallop,
             dest |-> ssa + 1, pa |-> 0, pb |-> ssb + 1,
             na |-> na, nb |-> nb - 1, acount |-> 0, bcount |-> 0,
             pc |-> IF nb = 1 THEN "Succeed"
                    ELSE IF na = 1 THEN "CopyB"
                    ELSE "pair"]
        (* Succeed: what is left of A follows. CopyB: what is left of B is *)
        (* moved down and the last element of A follows.                   *)
        lo_end(m) ==
            [ms EXCEPT
               !.a = IF m.pc = "Succeed"
                     THEN copied(m.a, m.dest, m.t, m.pa, m.na)
                     ELSE copied(copied(m.a, m.dest, m.a, m.pb, m.nb),
                                 m.dest + m.nb, m.t, m.pa, 1),
               !.min_gallop = m.min_gallop]
    IN  lo_end(lo_steps(lo_start, na + nb))

(* The runs a[ssa .. ssa + na) and a[ssb .. ssb + nb), na > nb, merged     *)
(* from the high end: m.t is the copy of run B, the last na elements of A  *)
(* left end at a[pa] (A starts at a[basea]) and the last nb of B at t[pb], *)
(* the next element merged goes to a[dest], below the ones merged before;  *)
(* the merge is left through "Succeed" or "CopyA".                         *)
hi_step(m) ==
    LET (* the k last elements of A, of B, go to the places ending at dest *)
        hi_take_a(s, k) ==
            [s EXCEPT !.a = copied(@, s.dest - k + 1, s.a, s.pa - k + 1, k),
                      !.dest = @ - k, !.pa = @ - k, !.na = @ - k]
        hi_take_b(s, k) ==
            [s EXCEPT !.a = copied(@, s.dest - k + 1, s.t, s.pb - k + 1, k),
                      !.dest = @ - k, !.pb = @ - k, !.nb = @ - k]
        hi_after_a(s) ==
            IF s.na = 0 THEN [s EXCEPT !.pc = "Succeed"]
            ELSE IF s.acount >= s.min_gallop
            THEN [s EXCEPT !.pc = "gallop", !.min_gallop = @ + 1]
            ELSE s
        hi_after_b(s) ==
            IF s.nb = 1 THEN [s EXCEPT !.pc = "CopyA"]
            ELSE IF s.bcount >= s.min_gallop
            THEN [s EXCEPT !.pc = "gallop", !.min_gallop = @ + 1]
            ELSE s
        (* After gallop_right gave na - k: the k elements of A that come   *)
        (* after the last of B, then that last.                            *)
        hi_b_taken(s) ==
            IF s.nb = 1 THEN [s EXCEPT !.pc = "CopyA"]
            ELSE [s EXCEPT !.pc = "gallop_left"]
        hi_as_taken(s) ==
            IF s.na = 0 THEN [s EXCEPT !.pc = "Succeed"]
            ELSE hi_b_taken(hi_take_b(s, 1))
        hi_gallop_as(s, k) ==
            hi_as_taken([hi_take_a(s, k) EXCEPT
                            !.acount = k,
                            !.min_gallop = IF @ > 1 THEN @ - 1 ELSE @])
        (* After gallop_left gave nb - k: the k elements of B that come    *)
        (* after the last of A, then that last.                            *)
        hi_a_taken(s) ==
            IF s.na = 0 THEN [s EXCEPT !.pc = "Succeed"]
            ELSE IF s.acount >= MIN_GALLOP \/ s.bcount >= MIN_GALLOP
            THEN [s EXCEPT !.pc = "gallop"]
            ELSE [s EXCEPT !.pc = "pair", !.min_gallop = @ + 1,
                           !.acount = 0, !.bcount = 0]
        hi_bs_taken(s) ==
            IF s.nb = 1 THEN [s EXCEPT !.pc = "CopyA"]
            ELSE IF s.nb = 0 THEN [s EXCEPT !.pc = "Succeed"]
            ELSE hi_a_taken(hi_take_a(s, 1))
        hi_gallop_bs(s, k) ==
            hi_bs_taken([hi_take_b(s, k) EXCEPT !.bcount = k])
    IN  CASE m.pc = "pair" ->
                IF ISLT(m, at(m.t, m.pb), at(m.a, m.pa))
                THEN hi_after_a([hi_take_a(m, 1) EXCEPT !.acount = @ + 1,
                                                        !.bcount = 0])
                ELSE hi_after_b([hi_take_b(m, 1) EXCEPT !.bcount = @ + 1,
                                                        !.acount = 0])
          [] m.pc = "gallop" ->
                hi_gallop_as(m, m.na - gallop_right(m, at(m.t, m.pb), m.a,
                                                    m.basea, m.na, m.na - 1))
          [] m.pc = "gallop_left" ->
                hi_gallop_bs(m, m.nb - gallop_left(m, at(m.a, m.pa), m.t, 0,
                                                   m.nb, m.nb - 1))

RECURSIVE hi_steps(_, _)
hi_steps(m, k) ==
    IF m.pc \in {"Succeed", "CopyA"} THEN m
    ELSE IF k <= 1 THEN hi_step(m)
    ELSE hi_steps(hi_steps(m, k \div 2), k - (k \div 2))

merge_hi(ms, ssa, na, ssb, nb) ==
    LET (* The last element of A is merged before the loops. *)
        hi_start ==
            [a |-> copied(ms.a, ssb + nb - 1, ms.a, ssa + na - 1, 1),
             t |-> SubSeq(ms.a, ssb + 1, ssb + nb),
             key_compare |-> ms.key_compare, min_gallop |-> ms.min_gallop,
             dest |-> ssb + nb - 2, basea |-> ssa, pa |-> ssa + na - 2,
             pb |-> nb - 1, na |-> na - 1, nb |-> nb,
             acount |-> 0, bcount |-> 0,
             pc |-> IF na = 1 THEN "Succeed"
                    ELSE IF nb = 1 THEN "CopyA"
                    ELSE "pair"]
        (* Succeed: what is left of B goes below. CopyA: what is left of A *)
        (* is moved up and the first element of B goes below.              *)
        hi_end(m) ==
            [ms EXCEPT
               !.a = IF m.pc = "Succeed"
                     THEN copied(m.a, m.dest - m.nb + 1, m.t, 0, m.nb)
                     ELSE copied(copied(m.a, m.dest - m.na + 1,
                                        m.a, m.pa - m.na + 1, m.na),
                                 m.dest - m.na, m.t, m.pb, 1),
               !.min_gallop = m.min_gallop]
    IN  hi_end(hi_steps(hi_start, na + nb))

(* merge_at, once the runs are one on the stack (ms) and the elements of   *)
(* A already in place are left out: A is a[ssa .. ssa + na), and the first *)
(* nb elements of B are the ones not in place.                             *)
merge_some(ms, ssa, na, ssb, nb) ==
    IF nb <= 0 THEN ms
    ELSE IF na <= nb THEN merge_lo(ms, ssa, na, ssb, nb)
    ELSE merge_hi(ms, ssa, na, ssb, nb)

(* The first k elements of A are in place (they are below the first of B); *)
(* the elements of B above the last of A are.                              *)
merge_from(ms, A, B, k) ==
    IF A.len - k = 0 THEN ms
    ELSE merge_some(ms, A.base + k, A.len - k, B.base,
                    gallop_left(ms, at(ms.a, A.base + A.len - 1), ms.a,
                                B.base, B.len, B.len - 1))

(* The runs i and i + 1 of the stack become one. *)
merge_at(ms, i) ==
    LET A == ms.pending[i + 1]
        B == ms.pending[i + 2]
    IN  merge_from([ms EXCEPT !.pending =
                        SubSeq(@, 1, i) \o <<[A EXCEPT !.len = @ + B.len]>>
                            \o SubSeq(@, i + 3, Len(@))],
                   A, B,
                   gallop_right(ms, at(ms.a, B.base), ms.a, A.base, A.len, 0))

(* The depth in the merge tree of the boundary between the run of n1       *)
(* elements at s1 and the next, of n2 elements, in a list of n.            *)
powerloop(s1, n1, n2, n) ==
    LET RECURSIVE power_from(_, _, _)
        power_from(a, b, result) ==
            IF a >= n THEN power_from(2 * (a - n), 2 * (b - n), result + 1)
            ELSE IF b >= n THEN result + 1
            ELSE power_from(2 * a, 2 * b, result + 1)
    IN  power_from(2 * s1 + n1, 2 * s1 + 2 * n1 + n2, 0)

(* The runs of the stack whose power is above that of the new boundary are *)
(* merged, and the boundary gets its power.                                *)
RECURSIVE merge_above(_, _)
merge_above(ms, power) ==
    IF /\ Len(ms.pending) > 1
       /\ ms.pending[Len(ms.pending) - 1].power > power
    THEN merge_above(merge_at(ms, Len(ms.pending) - 2), power)
    ELSE [ms EXCEPT !.pending[Len(ms.pending)].power = power]

(* Before a run of n2 elements is pushed on the stack. *)
found_new_run(ms, n2) ==
    IF Len(ms.pending) = 0 THEN ms
    ELSE merge_above(ms, powerloop(ms.pending[Len(ms.pending)].base,
                                   ms.pending[Len(ms.pending)].len,
                                   n2, Len(ms.a)))

(* The runs left on the stack are merged. *)
RECURSIVE merge_force_collapse(_)
merge_force_collapse(ms) ==
    IF Len(ms.pending) <= 1 THEN ms
    ELSE merge_force_collapse(
             merge_at(ms, IF /\ Len(ms.pending) > 2
                             /\ ms.pending[Len(ms.pending) - 2].len
                                    < ms.pending[Len(ms.pending)].len
                          THEN Len(ms.pending) - 3
                          ELSE Len(ms.pending) - 2))

(* One turn of the loop of list.sort, from its end to its start: the run   *)
(* of n elements at lo is made force long by binarysort (binarysort does   *)
(* nothing when force = n) and pushed on the stack.                        *)
run_forced(ms, n, force) ==
    [found_new_run([ms EXCEPT !.a = binarysort(ms, @, ms.lo, ms.lo + force,
                                               ms.lo + n)],
                   force)
        EXCEPT !.pending = Append(@, [base |-> ms.lo, len |-> force,
                                      power |-> 0]),
               !.lo = @ + force, !.nremaining = @ - force]

(* A run that descends is reversed; one shorter than minrun is made minrun *)
(* long, or as long as what remains.                                       *)
run_counted(ms, minrun, run) ==
    run_forced([ms EXCEPT !.a = IF run.descending
                                THEN reverse_slice(@, ms.lo, ms.lo + run.n)
                                ELSE @],
               run.n,
               IF run.n < minrun THEN Min(ms.nremaining, minrun) ELSE run.n)

(* The next run is found at lo. *)
next_run(ms, minrun) ==
    run_counted(ms, minrun,
                count_run(ms, ms.a, ms.lo, ms.lo + ms.nremaining))

(* k turns, or as many as there are until no element remains *)
RECURSIVE runs(_, _, _)
runs(ms, minrun, k) ==
    IF ms.nremaining = 0 THEN ms
    ELSE IF k <= 1 THEN next_run(ms, minrun)
    ELSE runs(runs(ms, minrun, k \div 2), minrun, k - (k \div 2))

(* list.sort: the runs are found and pushed, then the stack is collapsed.  *)
sorted(l) ==
    IF Len(l) < 2 THEN l
    ELSE merge_force_collapse(
             runs([a |-> l, key_compare |-> unsafe_float_compare(l),
                   pending |-> <<>>, min_gallop |-> MIN_GALLOP,
                   lo |-> 0, nremaining |-> Len(l)],
                  merge_compute_minrun(Len(l)), Len(l))).a

(***************************************************************************)
(* The running resolver: the options record, what was printed, and how     *)
(* the call ended (parser.error exits the process; an uncaught exception   *)
(* leaves through the caller).                                             *)
(* A resolver applies the steps of its code to this record one after the   *)
(* other: the parse is the innermost application, each later step encloses *)
(* the steps before it, and its other arguments follow them.               *)
(***************************************************************************)
Running(fr) == fr.halt.kind = "run"

parser_error(fr, msg) ==
    [fr EXCEPT !.halt = [kind |-> "error", msg |-> msg]]

raise(fr, exc) ==
    [fr EXCEPT !.halt = [kind |-> "exception", msg |-> <<exc>>]]

print(fr, msg) == [fr EXCEPT !.stdout = Append(@, [text |-> msg])]

print_list(fr, l) == [fr EXCEPT !.stdout = Append(@, [list |-> l])]

set(fr, dest, val) == [fr EXCEPT !.opts[dest] = val]

parse_args_lenient(defaults, cmdline) ==
    [halt |-> [kind |-> "run", msg |-> <<>>],
     stdout |-> <<>>,
     opts |-> [d \in DOMAIN defaults |->
                 IF d \in DOMAIN cmdline THEN cmdline[d] ELSE defaults[d]]]

(* optparse: every dest starts at its default, an option given on the      *)
(* command line replaces it; an option the parser does not declare (held   *)
(* on the command line as it was spelled) ends the call with               *)
(* "no such option: <spelling>".                                           *)
parse_args(defaults, cmdline) ==
    [halt |-> IF DOMAIN cmdline \subseteq DOMAIN defaults
              THEN [kind |-> "run", msg |-> <<>>]
              ELSE LET d == CHOOSE x \in DOMAIN cmdline :
                                 x \notin DOMAIN defaults
                   IN  [kind |-> "error",
                        msg |-> <<"no such option: ", cmdline[d].v>>],
     stdout |-> <<>>,
     opts |-> [d \in DOMAIN defaults |->
                 IF d \in DOMAIN cmdline THEN cmdline[d] ELSE defaults[d]]]

(* The attributes that optparse does not define and the resolver has not   *)
(* assigned yet.                                                           *)
with_attrs(fr, names) ==
    [fr EXCEPT !.opts = @ @@ [d \in names |-> [ty |-> "unset"]]]

(* the files that exist *)
exist(path) == path \in {"stdb.pkl", "other.pkl"}

inputs_nonempty(fr, a) ==
    IF ~Running(fr) THEN fr
    ELSE IF Len(a) = 0 THEN parser_error(fr, <<"Need station database file">>)
    ELSE IF ~exist(a[1])
         THEN parser_error(fr, <<"Input file ", a[1], " does not exist">>)
    ELSE fr

inputs_counted(fr, a) ==
    IF ~Running(fr) THEN fr
    ELSE IF Len(a) # 1 THEN parser_error(fr, <<"Need station database file">>)
    ELSE fr

(* if len(args) != 1: parser.error(...); if not exist(indb): ... *)
check_inputs(fr, a) ==
    IF ~Running(fr) THEN fr
    ELSE IF Len(a) # 1 THEN parser_error(fr, <<"Need station database file">>)
    ELSE IF ~exist(a[1])
         THEN parser_error(fr, <<"Input file ", a[1], " does not exist">>)
    ELSE fr

(* if len(opts.stkeys) > 0: opts.stkeys = opts.stkeys.split(',') *)
station_keys(fr) ==
    IF ~Running(fr) THEN fr
    ELSE IF Len(fr.opts.stkeys.v) > 0
         THEN set(fr, "stkeys", List(split(fr.opts.stkeys.v, ",")))
    ELSE fr

ValidTimes == {"2020-01-01"}

(* try: UTCDateTime(s) except: parser.error(...); the empty string gives   *)
(* None.                                                                   *)
construct_time(fr, dest, what) ==
    IF ~Running(fr) THEN fr
    ELSE IF fr.opts[dest].v # ""
         THEN IF fr.opts[dest].v \in ValidTimes
              THEN set(fr, dest, [ty |-> "UTCDateTime", v |-> fr.opts[dest].v])
              ELSE parser_error(fr,
                     <<"Cannot construct UTCDateTime from ", what, " time: ",
                       fr.opts[dest].v>>)
    ELSE set(fr, dest, None)

should_contain(flag, n) ==
    <<"Error: ", flag, " should contain ", n, " comma-separated floats">>

check_len(l, n) == Len(l) = n

(* opts.X = sorted(opts.X), where the resolver sorts *)
ordered(vals, srt) == IF srt THEN sorted(vals) ELSE vals

(* if (len(lst)) != n: parser.error(...); otherwise opts.X = lst *)
store_list(fr, dest, flag, n, lst) ==
    IF ~check_len(lst, n)
    THEN parser_error(fr, should_contain(flag, IF n = 2 THEN "2" ELSE "3"))
    ELSE set(fr, dest, List(lst))

(* [float(val) for val in toks]: the first token that is not a float     *)
(* raises ValueError                                                       *)
convert(fr, dest, flag, n, srt, toks) ==
    IF \E i \in 1..Len(toks) : ~is_float(toks[i])
    THEN raise(fr, "ValueError")
    ELSE store_list(fr, dest, flag, n,
                    ordered([i \in 1..Len(toks) |-> float(toks[i])], srt))

(* opts.X = [float(val) for val in opts.X.split(',')]                      *)
(* opts.X = sorted(opts.X)         (when srt)                              *)
(* if (len(opts.X)) != n: parser.error(...)                                *)
parse_floats(fr, dest, flag, n, srt) ==
    IF ~Running(fr) THEN fr
    ELSE convert(fr, dest, flag, n, srt, split(fr.opts[dest].v, ","))

(* return (opts, indb) *)
return(fr, a) ==
    IF Running(fr)
    THEN [status |-> "ok", opts |-> fr.opts, indb |-> a[1],
          stdout |-> fr.stdout]
    ELSE [status |-> fr.halt.kind, msg |-> fr.halt.msg, stdout |-> fr.stdout]

(***************************************************************************)
(* The default lists of the resolvers, as their literals are written       *)
(***************************************************************************)
DefaultBp == <<Literal(<<"0", ".", "0", "5">>), Literal(<<"0", ".", "5">>)>>

DefaultSlowbound ==
    <<Literal(<<"0", ".", "0", "4">>), Literal(<<"0", ".", "0", "8">>)>>

DefaultBazbound ==
    <<Literal(<<"0", ".", "0">>), Literal(<<"3", "6", "0", ".", "0">>)>>

DefaultBpCopy ==
    <<Literal(<<"0", ".", "0", "5">>), Literal(<<"0", ".", "3", "5">>)>>

DefaultHbound == <<Literal(<<"2", "0", ".">>), Literal(<<"5", "0", ".">>)>>

DefaultKbound ==
    <<Literal(<<"1", ".", "5", "6">>), Literal(<<"2", ".", "1">>)>>

DefaultWeights ==
    <<Literal(<<"0", ".", "5">>), Literal(<<"2", ".", "0">>),
      Literal(<<"-", "1", ".", "0">>)>>

DefaultTrange == <<Literal(<<"0", ".">>), Literal(<<"1", "0", ".">>)>>

(***************************************************************************)
(* Checks shared by several resolvers                                      *)
(***************************************************************************)
(* if opts.X is not None: parse the list *)
optional_floats(fr, dest, flag, n) ==
    IF ~Running(fr) THEN fr
    ELSE IF fr.opts[dest] # None THEN parse_floats(fr, dest, flag, n, TRUE)
    ELSE fr

(* if opts.X is None: opts.X = default; else: parse the list *)
defaults_sorted(fr, dest, flag, n, default) ==
    IF ~Running(fr) THEN fr
    ELSE IF fr.opts[dest] = None THEN set(fr, dest, List(sorted(default)))
    ELSE parse_floats(fr, dest, flag, n, TRUE)

defaulted_floats(fr, dest, flag, n, default) ==
    IF ~Running(fr) THEN fr
    ELSE IF fr.opts[dest] = None THEN set(fr, dest, List(default))
    ELSE parse_floats(fr, dest, flag, n, TRUE)

(* if opts.align is None: 'ZRT'; elif opts.align not in [...]: error *)
check_align(fr) ==
    IF ~Running(fr) THEN fr
    ELSE IF fr.opts.align = None THEN set(fr, "align", Str("ZRT"))
    ELSE IF fr.opts.align.v \notin {"ZRT", "LQT", "PVH"}
         THEN parser_error(fr,
                <<"Error: Incorrect alignment specifier. Should be ",
                  "either 'ZRT', 'LQT', or 'PVH'.">>)
    ELSE fr

(* if opts.method not in ['wiener', 'water', 'multitaper']: error *)
check_method(fr) ==
    IF ~Running(fr) THEN fr
    ELSE IF fr.opts.method.v \notin {"wiener", "water", "multitaper"}
         THEN parser_error(fr,
                <<"Error: 'method' should be either 'wiener', 'water' or ",
                  "'multitaper'">>)
    ELSE fr

(***************************************************************************)
(* get_calc_options                                                        *)
(***************************************************************************)
CalcDefaults ==
    [stkeys |-> Str(<<>>), verb |-> FALSE, ovr |-> FALSE,
     UserAuth |-> Str(<<>>), localdata |-> None, ndval |-> FALSE,
     startT |-> Str(""), endT |-> Str(""), phase |-> Str("P"),
     mindist |-> None, maxdist |-> None, dts |-> Num(150),
     align |-> None, dt_snr |-> Num(30), pre_filt |-> None,
     method |-> Str("wiener")]

(* Parse User Authentification *)
user_auth(fr) ==
    IF ~Running(fr) THEN fr
    ELSE IF Len(fr.opts.UserAuth.v) # 0
         THEN LET tt == split(fr.opts.UserAuth.v, ":")
              IN  IF Len(tt) # 2
                  THEN parser_error(fr,
                         <<"Error: Incorrect Username and Password ",
                           "Strings for User Authentification">>)
                  ELSE set(fr, "UserAuth", List(tt))
    ELSE set(fr, "UserAuth", List(<<>>))

(* Parse Local Data directories *)
local_data(fr) ==
    IF ~Running(fr) THEN fr
    ELSE IF fr.opts.localdata # None
         THEN set(fr, "localdata", List(split(fr.opts.localdata.v, ",")))
    ELSE set(fr, "localdata", List(<<>>))

nodata_swapped(fr) ==
    IF ~Running(fr) THEN fr
    ELSE IF fr.opts.ndval THEN set(fr, "ndval", NaN)
    ELSE set(fr, "ndval", Zero(FALSE))

(* Check NoData Value *)
nodata_value(fr) ==
    IF ~Running(fr) THEN fr
    ELSE IF fr.opts.ndval THEN set(fr, "ndval", Zero(FALSE))
    ELSE set(fr, "ndval", NaN)

CalcPhases == {"P", "PP", "S", "SKS"}

(* The distance interval of each phase, in degrees. *)
wrong_dist_range(phase) ==
    CASE phase = "P" -> <<Num(30), Num(100)>>
      [] phase = "PP" -> <<Num(100), Num(180)>>
      [] phase = "S" -> <<Num(55), Num(85)>>
      [] phase = "SKS" -> <<Num(85), Num(180)>>

dist_range(phase) ==
    CASE phase = "P" -> <<Num(30), Num(100)>>
      [] phase = "PP" -> <<Num(100), Num(180)>>
      [] phase = "S" -> <<Num(55), Num(85)>>
      [] phase = "SKS" -> <<Num(85), Num(115)>>

dist_message(phase) ==
    CASE phase = "P" -> <<"Distances should be between 30 and 100 deg. for ",
                          "teleseismic 'P' waves.">>
      [] phase = "PP" -> <<"Distances should be between 100 and 180 deg. for ",
                           "teleseismic 'PP' waves.">>
      [] phase = "S" -> <<"Distances should be between 55 and 85 deg. for ",
                          "teleseismic 'S' waves.">>
      [] phase = "SKS" -> <<"Distances should be between 85 and 115 deg. for ",
                            "teleseismic 'SKS' waves.">>

(* if not opts.mindist: opts.mindist = lowest                              *)
(* if not opts.maxdist: opts.maxdist = highest                             *)
default_distances(fr, rng) ==
    set(set(fr, "mindist",
            IF ~Truthy(fr.opts.mindist) THEN rng[1] ELSE fr.opts.mindist),
        "maxdist",
        IF ~Truthy(fr.opts.maxdist) THEN rng[2] ELSE fr.opts.maxdist)

(* if opts.mindist < lowest or opts.maxdist > highest: parser.error(...) *)
distances_within(fr, rng) ==
    IF lt(fr.opts.mindist, rng[1]) \/ lt(rng[2], fr.opts.maxdist)
    THEN parser_error(fr, dist_message(fr.opts.phase.v))
    ELSE fr

phase_distances(fr, rng) == distances_within(default_distances(fr, rng), rng)

(* Check distances for selected phase *)
check_distances(fr) ==
    IF ~Running(fr) THEN fr
    ELSE IF fr.opts.phase.v \notin CalcPhases
         THEN parser_error(fr,
                <<"Error: choose between 'P', 'PP', 'S' and 'SKS'.">>)
    ELSE phase_distances(fr, dist_range(fr.opts.phase.v))

snr_window_geq(fr) ==
    IF ~Running(fr) THEN fr
    ELSE IF ~lt(fr.opts.dt_snr, fr.opts.dts)
         THEN print(set(fr, "dt_snr", minus(fr.opts.dts, Num(10))),
                    <<"SNR window > data window. Defaulting to data ",
                      "window minus 10 sec.">>)
    ELSE fr

(* if opts.dt_snr > opts.dts: opts.dt_snr = opts.dts - 10.; print(...) *)
snr_window(fr) ==
    IF ~Running(fr) THEN fr
    ELSE IF lt(fr.opts.dts, fr.opts.dt_snr)
         THEN print(set(fr, "dt_snr", minus(fr.opts.dts, Num(10))),
                    <<"SNR window > data window. Defaulting to data ",
                      "window minus 10 sec.">>)
    ELSE fr

calc_resolve_late(cmdline, a) ==
    return(
     check_inputs(
      check_method(
       snr_window(
        check_align(
         optional_floats(
          check_distances(
           nodata_value(
            local_data(
             user_auth(
              construct_time(
               construct_time(
                station_keys(
                 parse_args(CalcDefaults, cmdline)),
               "startT", "start"),
              "endT", "end"))))),
         "pre_filt", "--pre-filt", 2)))),
     a),
    a)

calc_resolve(cmdline, a) ==
    return(
     check_method(
      snr_window(
       check_align(
        optional_floats(
         check_distances(
          nodata_value(
           local_data(
            user_auth(
             construct_time(
              construct_time(
               station_keys(
                check_inputs(
                 parse_args(CalcDefaults, cmdline),
                a)),
              "startT", "start"),
             "endT", "end"))))),
        "pre_filt", "--pre-filt", 2)))),
    a)

(***************************************************************************)
(* get_recalc_options                                                      *)
(***************************************************************************)
RecalcDefaults ==
    [stkeys |-> Str(<<>>), verb |-> FALSE, phase |-> Str("allP"),
     align |-> None, dt_snr |-> Num(30), pre_filt |-> None,
     method |-> Str("wiener")]

listphase_single(phase) == <<phase>>

listphase_of(phase) ==
    CASE phase = "allP" -> <<"P", "PP">>
      [] phase = "allS" -> <<"S", "SKS">>
      [] OTHER -> <<phase>>

(* if opts.phase not in [...]: error; opts.listphase = ... *)
check_phase(fr) ==
    IF ~Running(fr) THEN fr
    ELSE IF ~is_in(fr.opts.phase, {"P", "PP", "allP", "S", "SKS", "allS"})
         THEN parser_error(fr,
                <<"Error: choose between 'P', 'PP', 'allP', 'S', 'SKS' and ",
                  "'allS'.">>)
    ELSE set(fr, "listphase", List(listphase_of(fr.opts.phase.v)))

recalc_resolve(cmdline, a) ==
    return(
     optional_floats(
      check_method(
       check_align(
        check_phase(
         station_keys(
          check_inputs(
           with_attrs(parse_args(RecalcDefaults, cmdline), {"listphase"}),
          a))))),
     "pre_filt", "--pre-filt", 2),
    a)

(***************************************************************************)
(* get_hk_options                                                          *)
(***************************************************************************)
HkDefaults ==
    [stkeys |-> Str(<<>>), verb |-> FALSE, ovr |-> FALSE,
     startT |-> Str(""), endT |-> Str(""), bp |-> None,
     nbaz |-> Integer(36), slowbound |-> None, bazbound |-> None,
     copy |-> FALSE, bp_copy |-> None, hbound |-> None, kbound |-> None,
     weights |-> None, typ |-> Str("sum"), strike |-> None, dip |-> None]

strike_dip_keeps_nbaz(fr) ==
    IF ~Running(fr) THEN fr
    ELSE IF fr.opts.strike = None /\ fr.opts.dip = None
         THEN set(fr, "calc_dip", FALSE)
    ELSE IF fr.opts.strike = None \/ fr.opts.dip = None
         THEN parser_error(fr,
                <<"Specify both strike and dip for this type ",
                  "of analysis">>)
    ELSE set(fr, "calc_dip", TRUE)

strike_dip_truthy(fr) ==
    IF ~Running(fr) THEN fr
    ELSE IF ~Truthy(fr.opts.strike) /\ ~Truthy(fr.opts.dip)
         THEN set(set(fr, "calc_dip", FALSE), "nbaz", None)
    ELSE IF ~Truthy(fr.opts.strike) \/ ~Truthy(fr.opts.dip)
         THEN parser_error(fr,
                <<"Specify both strike and dip for this type ",
                  "of analysis">>)
    ELSE set(fr, "calc_dip", TRUE)

(* strike and dip come together or not at all *)
strike_dip(fr) ==
    IF ~Running(fr) THEN fr
    ELSE IF fr.opts.strike = None /\ fr.opts.dip = None
         THEN set(set(fr, "calc_dip", FALSE), "nbaz", None)
    ELSE IF fr.opts.strike = None \/ fr.opts.dip = None
         THEN parser_error(fr,
                <<"Specify both strike and dip for this type ",
                  "of analysis">>)
    ELSE set(fr, "calc_dip", TRUE)

(* if opts.copy: default or parse opts.bp_copy *)
copy_band(fr) ==
    IF ~Running(fr) THEN fr
    ELSE IF fr.opts.copy
         THEN defaulted_floats(fr, "bp_copy", "--bp_copy", 2, DefaultBpCopy)
    ELSE fr

hk_resolve(cmdline, a) ==
    return(
     defaulted_floats(
      defaulted_floats(
       defaulted_floats(
        copy_band(
         defaulted_floats(
          defaulted_floats(
           defaulted_floats(
            strike_dip(
             construct_time(
              construct_time(
               station_keys(
                check_inputs(
                 with_attrs(parse_args(HkDefaults, cmdline), {"calc_dip"}),
                a)),
              "startT", "start"),
             "endT", "end")),
           "bp", "--bp", 2, DefaultBp),
          "slowbound", "--slowbound", 2, DefaultSlowbound),
         "bazbound", "--bazbound", 2, DefaultBazbound)),
       "hbound", "--hbound", 2, DefaultHbound),
      "kbound", "--kbound", 2, DefaultKbound),
     "weights", "--weights", 3, DefaultWeights),
    a)

(***************************************************************************)
(* get_harmonics_options                                                   *)
(***************************************************************************)
HarmonicsDefaults ==
    [stkeys |-> Str(<<>>), verb |-> FALSE, ovr |-> FALSE,
     startT |-> Str(""), endT |-> Str(""), bp |-> None,
     azim |-> None, find_azim |-> FALSE, trange |-> None]

azim_truthy(fr) ==
    IF ~Running(fr) THEN fr
    ELSE IF Truthy(fr.opts.azim) /\ fr.opts.find_azim
         THEN set(print(fr,
                <<"Warning: Setting both '--azim' and '--find-azim' is ",
                  "conflictual. Ignoring '--find-azim'">>),
                "find_azim", FALSE)
    ELSE IF ~Truthy(fr.opts.azim) /\ ~fr.opts.find_azim
         THEN set(fr, "azim", Zero(FALSE))
    ELSE fr

(* if opts.azim is not None and opts.find_azim: warn, find_azim = False    *)
(* elif opts.azim is None and not opts.find_azim: opts.azim = 0.           *)
azim_or_find(fr) ==
    IF ~Running(fr) THEN fr
    ELSE IF fr.opts.azim # None /\ fr.opts.find_azim
         THEN set(print(fr,
                <<"Warning: Setting both '--azim' and '--find-azim' is ",
                  "conflictual. Ignoring '--find-azim'">>),
                "find_azim", FALSE)
    ELSE IF fr.opts.azim = None /\ ~fr.opts.find_azim
         THEN set(fr, "azim", Zero(FALSE))
    ELSE fr

find_range_always(fr) ==
    IF ~Running(fr) THEN fr
    ELSE IF fr.opts.trange = None
         THEN set(fr, "trange", List(DefaultTrange))
    ELSE parse_floats(print_list(fr, split(fr.opts.trange.v, ",")),
                      "trange", "--trange", 2, TRUE)

(* if opts.find_azim: default or parse opts.trange; the split list is      *)
(* printed before the conversion                                           *)
find_range(fr) ==
    IF ~Running(fr) THEN fr
    ELSE IF fr.opts.find_azim
         THEN IF fr.opts.trange = None
              THEN set(fr, "trange", List(DefaultTrange))
              ELSE parse_floats(print_list(fr, split(fr.opts.trange.v, ",")),
                                "trange", "--trange", 2, TRUE)
    ELSE fr

harmonics_resolve(cmdline, a) ==
    return(
     find_range(
      azim_or_find(
       defaulted_floats(
        construct_time(
         construct_time(
          station_keys(
           check_inputs(
            parse_args(HarmonicsDefaults, cmdline),
           a)),
         "startT", "start"),
        "endT", "end"),
       "bp", "--bp", 2, DefaultBp))),
    a)

(***************************************************************************)
(* get_ccp_options                                                         *)
(***************************************************************************)
CcpDefaults ==
    [stkeys |-> Str(<<>>), verb |-> FALSE, ovr |-> FALSE,
     coord_start |-> None, coord_end |-> None,
     load |-> FALSE, prep |-> FALSE, prestack |-> FALSE, ccp |-> FALSE,
     gccp |-> FALSE, linear |-> FALSE, phase |-> FALSE,
     ccp_figure |-> FALSE, cbound |-> None, save_figure |-> FALSE,
     fmt |-> Str("png")]

(* if opts.load and opts.X is None: error                                  *)
(* elif opts.load and opts.X is not None: parse two floats, unsorted       *)
line_point(fr, dest, flag) ==
    IF ~Running(fr) THEN fr
    ELSE IF fr.opts.load /\ fr.opts[dest] = None
         THEN parser_error(fr, <<flag, "=lon,lat is required">>)
    ELSE IF fr.opts.load /\ fr.opts[dest] # None
         THEN parse_floats(fr, dest, flag, 2, FALSE)
    ELSE fr

step_unchecked(fr) == fr

(* if not (load or prep or prestack or ccp or gccp): error *)
check_steps(fr) ==
    IF ~Running(fr) THEN fr
    ELSE IF ~(fr.opts.load \/ fr.opts.prep \/ fr.opts.prestack
              \/ fr.opts.ccp \/ fr.opts.gccp)
         THEN parser_error(fr,
                <<"Error: needs at least one CCP Setting (--load, --prep, ",
                  "--prestack, --ccp or --gccp">>)
    ELSE fr

exclusive_unchecked(fr) == fr

(* if opts.linear and opts.phase: error *)
check_exclusive(fr) ==
    IF ~Running(fr) THEN fr
    ELSE IF fr.opts.linear /\ fr.opts.phase
         THEN parser_error(fr,
                <<"Error: cannot use --linear and --phase at the same time">>)
    ELSE fr

stacking_per_step(fr) ==
    IF ~Running(fr) THEN fr
    ELSE LET g == IF fr.opts.ccp /\ ~fr.opts.linear /\ ~fr.opts.phase
                  THEN set(fr, "linear", TRUE) ELSE fr
         IN  IF fr.opts.gccp /\ ~fr.opts.linear /\ ~fr.opts.phase
             THEN set(g, "phase", TRUE) ELSE g

stacking_always_linear(fr) ==
    IF ~Running(fr) THEN fr
    ELSE IF (fr.opts.ccp \/ fr.opts.gccp) /\ ~fr.opts.linear /\ ~fr.opts.phase
         THEN set(fr, "linear", TRUE)
    ELSE fr

(* if opts.ccp and not opts.linear and not opts.phase: linear = True       *)
(* if opts.gccp and not opts.linear and not opts.phase: phase = True       *)
default_stacking(fr) ==
    IF ~Running(fr) THEN fr
    ELSE LET g == IF fr.opts.ccp /\ ~fr.opts.linear /\ ~fr.opts.phase
                  THEN set(fr, "linear", TRUE) ELSE fr
         IN  IF g.opts.gccp /\ ~g.opts.linear /\ ~g.opts.phase
             THEN set(g, "phase", TRUE) ELSE g

figure_warned(fr) ==
    IF ~Running(fr) THEN fr
    ELSE IF (fr.opts.ccp \/ fr.opts.gccp)
            /\ (fr.opts.save_figure \/ Truthy(fr.opts.cbound)
                \/ TruthyStr(fr.opts.fmt))
            /\ ~fr.opts.ccp_figure
         THEN print(fr,
                <<"Warning: Figure will not be produced since ",
                  "--figure has not been set.">>)
    ELSE fr

(* the warning and the check of --figure *)
check_figure(fr) ==
    IF ~Running(fr) THEN fr
    ELSE LET g == IF (fr.opts.ccp \/ fr.opts.gccp)
                     /\ (fr.opts.save_figure \/ Truthy(fr.opts.cbound)
                         \/ TruthyStr(fr.opts.fmt))
                     /\ ~fr.opts.ccp_figure
                  THEN print(fr,
                         <<"Warning: Figure will not be produced since ",
                           "--figure has not been set.">>)
                  ELSE fr
         IN  IF g.opts.ccp_figure /\ ~(g.opts.ccp \/ g.opts.gccp)
             THEN parser_error(g,
                    <<"Error: Cannot produce Figure without specifying the ",
                      "type of stacking [--ccp or --gccp].">>)
             ELSE g

(* if not opts.cbound and opts.gccp: 0.015                                 *)
(* elif not opts.cbound and opts.ccp: 0.05                                 *)
default_cbound(fr) ==
    IF ~Running(fr) THEN fr
    ELSE IF ~Truthy(fr.opts.cbound) /\ fr.opts.gccp
         THEN set(fr, "cbound", Literal(<<"0", ".", "0", "1", "5">>))
    ELSE IF ~Truthy(fr.opts.cbound) /\ fr.opts.ccp
         THEN set(fr, "cbound", Literal(<<"0", ".", "0", "5">>))
    ELSE fr

ccp_resolve(cmdline, a) ==
    return(
     default_cbound(
      check_figure(
       default_stacking(
        check_exclusive(
         check_steps(
          line_point(
           line_point(
            station_keys(
             check_inputs(
              parse_args(CcpDefaults, cmdline),
             a)),
           "coord_start", "--start"),
          "coord_end", "--end")))))),
    a)

(***************************************************************************)
(* get_plot_options                                                        *)
(***************************************************************************)
PlotDefaults ==
    [stkeys |-> Str(<<>>), verb |-> FALSE, ovr |-> FALSE, bp |-> None,
     nbaz |-> None, nslow |-> None, slowbound |-> None, bazbound |-> None,
     phase |-> None, trange |-> None]

(* if opts.trange is None: tmin, tmax = 0., 30.; else parse the pair *)
time_range(fr) ==
    IF ~Running(fr) THEN fr
    ELSE IF fr.opts.trange = None
         THEN set(set(fr, "tmin", Zero(FALSE)), "tmax", Num(30))
    ELSE parse_floats(fr, "trange", "--trange", 2, TRUE)

(* exactly one of --nbaz and --nslow *)
check_bins(fr) ==
    IF ~Running(fr) THEN fr
    ELSE IF fr.opts.nbaz = None /\ fr.opts.nslow = None
         THEN parser_error(fr, <<"Specify at least one of --nbaz or --nslow">>)
    ELSE IF fr.opts.nbaz # None /\ fr.opts.nslow # None
         THEN parser_error(fr, <<"Specify only one of --nbaz or --nslow">>)
    ELSE fr

plot_resolve(cmdline, a) ==
    return(
     check_bins(
      station_keys(
       time_range(
        optional_floats(
         check_phase(
          defaulted_floats(
           defaulted_floats(
            check_inputs(
             with_attrs(parse_args(PlotDefaults, cmdline), {"listphase",
                 "tmin", "tmax"}),
            a),
           "slowbound", "--slowbound", 2, DefaultSlowbound),
          "bazbound", "--bazbound", 2, DefaultBazbound)),
        "bp", "--bp", 2)))),
    a)

(***************************************************************************)
(* The command lines: what each option may be given as                     *)
(***************************************************************************)
(* The positional arguments of a call: none, a station database, a file    *)
(* that does not exist, or two.                                            *)
ArgLists == {<<>>, <<"stdb.pkl">>, <<"other.pkl">>, <<"missing.pkl">>,
             <<"stdb.pkl", "missing.pkl">>, <<"missing.pkl", "stdb.pkl">>}

S21 == Str(<<"2", ",", "1">>)

Sdec == Str(<<"0", ".", "5", ",", "2", ",", "-", "1">>)

(* "2,1", "1,2", "3", "3,1,2" and "x,1" *)
ListStrings ==
    {S21, Str(<<"1", ",", "2">>), Str(<<"3">>),
     Str(<<"3", ",", "1", ",", "2">>), Str(<<"x", ",", "1">>)}

(* 0.0004, a number that is not zero *)
Small == Literal(<<"0", ".", "0", "0", "0", "4">>)

Dests(v) ==
    CASE v = "calc" -> DOMAIN CalcDefaults
      [] v = "recalc" -> DOMAIN RecalcDefaults \cup {"ovr"}
      [] v = "hk" -> DOMAIN HkDefaults
      [] v = "harmonics" -> DOMAIN HarmonicsDefaults
      [] v = "ccp" -> DOMAIN CcpDefaults
      [] v = "plot" -> DOMAIN PlotDefaults

Values(v, d) ==
    CASE d = "stkeys" -> {Str(<<"a", ",", "b">>)}
      [] d \in {"startT", "endT"} -> {Str("2020-01-01"), Str("yesterday")}
      [] d = "UserAuth" -> {Str(<<"u", ":", "p">>), Str(<<"u">>)}
      [] d = "localdata" -> {Str(<<"d">>)}
      [] d = "phase" /\ v = "calc" ->
            {Str("P"), Str("PP"), Str("S"), Str("SKS"), Str("allP")}
      [] d = "phase" /\ v \in {"recalc", "plot"} ->
            {Str("P"), Str("PP"), Str("allP"), Str("S"), Str("SKS"),
             Str("allS"), Str("Pn")}
      [] d \in {"mindist", "maxdist"} ->
            (* 100.0004 is a number just above 100 *)
            {Num(d0) : d0 \in {0, 20, 70, 110, 190}}
                \cup {NaN, Small,
                      Literal(<<"1", "0", "0", ".", "0", "0", "0", "4">>)}
      [] d = "dts" ->
            {Num(30), Num(300), Literal(<<"3", "0", ".", "0", "0", "0", "1">>)}
      [] d = "dt_snr" ->
            {Num(40), Num(200), Literal(<<"3", "0", ".", "0", "0", "0", "4">>)}
      [] d = "align" -> {Str("LQT"), Str("PVH"), Str("XYZ")}
      [] d = "method" -> {Str("water"), Str("multitaper"), Str("boxcar")}
      [] d \in {"pre_filt", "trange"} ->
            (* "nan,1"; a vertical tab before the first number; a      *)
            (* numeral above the floats; U+2003 (a space), then the    *)
            (* digits U+0662 (2) and U+FF11, U+FF15 (1 and 5)          *)
            ListStrings
                \cup {Str(<<"n", "a", "n", ",", "1">>), Sdec,
                      Str(<<"", "1", ",", "7">>),
                      Str(<<"1", "e", "4", "0", "0", ",", "1">>),
                      Str(<<Char(\H2003), Char(\H662), ",",
                            Char(\HFF11), ".", Char(\HFF15)>>)}
      [] d = "weights" -> ListStrings \cup {Sdec}
      [] d \in {"bp", "bp_copy", "slowbound", "bazbound", "hbound",
                "kbound", "coord_start", "coord_end"} -> ListStrings
      [] d = "typ" -> {Str("prod"), Str("median")}
      [] d \in {"strike", "dip", "azim"} -> {Zero(FALSE), Num(10)}
      [] d \in {"nbaz", "nslow"} -> {Integer(0), Integer(12)}
      [] d = "cbound" ->
            {Zero(FALSE), Literal(<<"0", ".", "0", "2">>), NaN, Small}
      [] d = "fmt" -> {Str(""), Str("pdf")}
      [] d = "ovr" /\ v = "recalc" -> {Str("-O"), Str("--overwrite")}
      [] OTHER -> {TRUE}

(***************************************************************************)
(* The state machine: a command line is written option by option, then     *)
(* the script of the variant calls its resolver once.                      *)
(***************************************************************************)
Pending == [status |-> "pending"]

Init ==
    /\ variant \in {"calc", "recalc", "hk", "harmonics", "ccp", "plot"}
    /\ args = <<>>
    /\ argv = <<>>
    /\ out = Pending

AddOption ==
    /\ out = Pending
    /\ Cardinality(DOMAIN argv) < MaxOpts
    /\ \E d \in Dests(variant) \ DOMAIN argv :
         \E val \in Values(variant, d) : argv' = argv @@ (d :> val)
    /\ UNCHANGED <<variant, args, out>>

(* The script of variant v has called its resolver on the positional       *)
(* arguments a and got result.                                             *)
Call(v, a, result) ==
    /\ variant = v
    /\ out = Pending
    /\ args' = a
    /\ out' = result
    /\ UNCHANGED <<variant, argv>>

get_calc_options ==
    \E a \in ArgLists : Call("calc", a, calc_resolve(argv, a))

get_recalc_options ==
    \E a \in ArgLists : Call("recalc", a, recalc_resolve(argv, a))

get_hk_options ==
    \E a \in ArgLists : Call("hk", a, hk_resolve(argv, a))

get_harmonics_options ==
    \E a \in ArgLists : Call("harmonics", a, harmonics_resolve(argv, a))

get_ccp_options ==
    \E a \in ArgLists : Call("ccp", a, ccp_resolve(argv, a))

get_plot_options ==
    \E a \in ArgLists : Call("plot", a, plot_resolve(argv, a))

Next ==
    \/ AddOption
    \/ get_calc_options
    \/ get_recalc_options
    \/ get_hk_options
    \/ get_harmonics_options
    \/ get_ccp_options
    \/ get_plot_options

Spec == Init /\ [][Next]_vars

(***************************************************************************)
(* Vocabulary of the properties                                            *)
(***************************************************************************)
Resolved == out # Pending

Ok == Resolved /\ out.status = "ok"

Failed == Resolved /\ out.status # "ok"

GivenOpt(d) == d \in DOMAIN argv

ValidDb == args = <<"stdb.pkl">>

(* The token is the numeral of a number: float() accepts it and the       *)
(* result is not nan.                                                      *)
IsNumber(tok) == is_float(tok) /\ float(tok).ty # "nan"

(* The command line gives d as a list of n numbers. *)

NumbersGiven(d, n) ==
    /\ GivenOpt(d)
    /\ LET t == split(argv[d].v, ",")
       IN  Len(t) = n /\ \A i \in 1..Len(t) : IsNumber(t[i])

NumbersGivenOtherThan(d, n) ==
    /\ GivenOpt(d)
    /\ LET t == split(argv[d].v, ",")
       IN  Len(t) # n /\ \A i \in 1..Len(t) : is_float(t[i])

(* a <= b on numbers *)
le(a, b) == ~lt(b, a)

MinMax(s) ==
    LET t == split(s.v, ",")
        a == float(t[1])
        b == float(t[2])
    IN  <<IF le(a, b) THEN a ELSE b, IF le(a, b) THEN b ELSE a>>

IsList(x, l) == x.ty = "list" /\ x.v = l

RangeDests ==
    {"pre_filt", "bp", "bp_copy", "slowbound", "bazbound", "hbound",
     "kbound", "trange"}

ArityDests == RangeDests \cup {"coord_start", "coord_end", "weights"}

Arity(d) == IF d = "weights" THEN 3 ELSE 2

FlagText(d) ==
    CASE d = "pre_filt" -> "--pre-filt"
      [] d = "bp" -> "--bp"
      [] d = "bp_copy" -> "--bp_copy"
      [] d = "slowbound" -> "--slowbound"
      [] d = "bazbound" -> "--bazbound"
      [] d = "hbound" -> "--hbound"
      [] d = "kbound" -> "--kbound"
      [] d = "trange" -> "--trange"
      [] d = "coord_start" -> "--start"
      [] d = "coord_end" -> "--end"
      [] d = "weights" -> "--weights"

ArityMessage(d) ==
    <<"Error: ", FlagText(d), " should contain ",
      IF d = "weights" THEN "3" ELSE "2", " comma-separated floats">>

(***************************************************************************)
(* C1                                                                      *)
(***************************************************************************)
(* C1: after a successful resolution every range option given as two       *)
(* numbers "a,b", in either order, is the pair (min(a,b), max(a,b)).       *)
C1_SortedPairs ==
    Ok => \A d \in RangeDests :
            NumbersGiven(d, 2) => IsList(out.opts[d], MinMax(argv[d]))

(***************************************************************************)
(* C2                                                                      *)
(***************************************************************************)
(* C2: an option of arity N given as a list of numbers whose count is not  *)
(* N makes resolution fail with the error that names that option,          *)
(* whatever the other flags are.                                           *)
C2_ArityError ==
    Resolved /\ ValidDb
       => \A d \in ArityDests :
            NumbersGivenOtherThan(d, Arity(d))
               => out.status = "error" /\ out.msg = ArityMessage(d)

(***************************************************************************)
(* C3                                                                      *)
(***************************************************************************)
OrderedPair(x) ==
    /\ x.ty = "list"
    /\ Len(x.v) = 2
    /\ \A i \in 1..2 : x.v[i].ty = "float"
    /\ le(x.v[1], x.v[2])

(* C3: after a successful resolution the distance bounds satisfy           *)
(* mindist <= maxdist, every range field that is set holds two numbers      *)
(* with low <= high, and the H-k weights hold three numbers; none is left   *)
(* as a raw string.                                                         *)
C3_BoundedPairs ==
    Ok => /\ variant = "calc"
             => /\ out.opts.mindist.ty = "float"
                /\ out.opts.maxdist.ty = "float"
                /\ le(out.opts.mindist, out.opts.maxdist)
          /\ \A d \in RangeDests \cap DOMAIN out.opts :
               out.opts[d] # None => OrderedPair(out.opts[d])
          /\ variant = "hk"
             => out.opts.weights.ty = "list" /\ Len(out.opts.weights.v) = 3

(***************************************************************************)
(* C4                                                                      *)
(***************************************************************************)
CanonicalLow(phase) ==
    CASE phase = "P" -> Num(30) [] phase = "PP" -> Num(100)
      [] phase = "S" -> Num(55) [] phase = "SKS" -> Num(85)

CanonicalHigh(phase) ==
    CASE phase = "P" -> Num(100) [] phase = "PP" -> Num(180)
      [] phase = "S" -> Num(85) [] phase = "SKS" -> Num(115)

GivenPhase == IF GivenOpt("phase") THEN argv["phase"].v ELSE "P"

DistanceMessages == {dist_message(p) : p \in CalcPhases}

(* C4: in the event-download variant, with neither --mindist nor --maxdist *)
(* the resolved bounds are (30, 100) for P, (100, 180) for PP, (55, 85)    *)
(* for S and (85, 115) for SKS, and no failure is a failure of the         *)
(* distance check.                                                         *)
C4_DefaultDistances ==
    /\ Resolved
    /\ variant = "calc"
    /\ ~GivenOpt("mindist")
    /\ ~GivenOpt("maxdist")
    /\ GivenPhase \in CalcPhases
    => /\ Ok => /\ out.opts.mindist = CanonicalLow(GivenPhase)
                /\ out.opts.maxdist = CanonicalHigh(GivenPhase)
       /\ out.status = "error" => out.msg \notin DistanceMessages

C4_Witness ==
    /\ Ok
    /\ variant = "calc"
    /\ ~GivenOpt("mindist")
    /\ ~GivenOpt("maxdist")
    /\ GivenPhase = "SKS"
    /\ out.opts.mindist = Num(85)
    /\ out.opts.maxdist = Num(115)

(***************************************************************************)
(* C5                                                                      *)
(***************************************************************************)
(* C5: in the event-download variant, when --mindist and/or --maxdist is   *)
(* given, a successful resolution returns a bound pair contained in the    *)
(* canonical interval of the phase: a pair that is not contained makes     *)
(* resolution fail.                                                        *)
C5_ContainedOrFails ==
    /\ Ok
    /\ variant = "calc"
    /\ GivenOpt("mindist") \/ GivenOpt("maxdist")
    => /\ out.opts.mindist.ty = "float"
       /\ out.opts.maxdist.ty = "float"
       /\ le(CanonicalLow(GivenPhase), out.opts.mindist)
       /\ le(out.opts.mindist, out.opts.maxdist)
       /\ le(out.opts.maxdist, CanonicalHigh(GivenPhase))

(***************************************************************************)
(* C6                                                                      *)
(***************************************************************************)
(* C6: after a successful resolution phase, method, align and the H-k      *)
(* stacking type each hold a member of their closed set.                   *)
C6_EnumeratedFields ==
    Ok => /\ variant = "calc" => out.opts.phase.v \in {"P", "PP", "S", "SKS"}
          /\ variant \in {"recalc", "plot"}
             => out.opts.phase.v \in {"P", "PP", "allP", "S", "SKS", "allS"}
          /\ variant \in {"calc", "recalc"}
             => /\ out.opts.method.v \in {"wiener", "water", "multitaper"}
                /\ out.opts.align.v \in {"ZRT", "LQT", "PVH"}
          /\ variant = "hk" => out.opts.typ.v \in {"sum", "prod"}

(***************************************************************************)
(* C7                                                                      *)
(***************************************************************************)
(* C7: after a successful resolution linear and phase are not both true in *)
(* the CCP variant, and find_azim is not true while azim holds a value in  *)
(* the harmonics variant.                                                  *)
C7_ExclusivePairs ==
    Ok => /\ variant = "ccp" => ~(out.opts.linear /\ out.opts.phase)
          /\ variant = "harmonics"
             => ~(out.opts.find_azim /\ out.opts.azim # None)

C7_Witness ==
    /\ Ok
    /\ variant = "ccp"
    /\ GivenOpt("ccp")
    /\ GivenOpt("gccp")
    /\ out.opts.linear
    /\ ~out.opts.phase

(***************************************************************************)
(* C8                                                                      *)
(***************************************************************************)
AzimWarning ==
    [text |-> <<"Warning: Setting both '--azim' and '--find-azim' is ",
                "conflictual. Ignoring '--find-azim'">>]

Printed(line) == \E i \in 1..Len(out.stdout) : out.stdout[i] = line

(* C8: in the harmonics variant --azim (any value, 0 included) together    *)
(* with --find-azim resolves with a warning to find_azim = False and azim  *)
(* as given; the combination itself never fails: a command line with a      *)
(* valid station database, valid times and a valid --bp succeeds.           *)
C8_AzimWins ==
    /\ Resolved
    /\ variant = "harmonics"
    /\ GivenOpt("azim")
    /\ GivenOpt("find_azim")
    => /\ Ok => /\ out.opts.find_azim = FALSE
                /\ out.opts.azim = argv["azim"]
                /\ Printed(AzimWarning)
       /\ /\ ValidDb
          /\ \A d \in {"startT", "endT"} :
               GivenOpt(d) => argv[d].v \in ValidTimes
          /\ GivenOpt("bp") => NumbersGiven("bp", 2)
          => Ok

C8_Witness ==
    /\ Ok
    /\ variant = "harmonics"
    /\ GivenOpt("azim")
    /\ GivenOpt("find_azim")
    /\ argv["azim"] = Num(10)
    /\ out.opts.azim = Num(10)
    /\ out.opts.find_azim = FALSE
    /\ Printed(AzimWarning)

(***************************************************************************)
(* C9                                                                      *)
(***************************************************************************)
StepDests == {"load", "prep", "prestack", "ccp", "gccp"}

StepMessage ==
    <<"Error: needs at least one CCP Setting (--load, --prep, ",
      "--prestack, --ccp or --gccp">>

(* C9: in the CCP variant a call with a valid station database and none of *)
(* --load, --prep, --prestack, --ccp, --gccp fails with the usage error    *)
(* that asks for a CCP setting, whatever the other flags are.              *)
C9_NeedsStep ==
    /\ Resolved
    /\ variant = "ccp"
    /\ ValidDb
    /\ StepDests \cap DOMAIN argv = {}
    => out.status = "error" /\ out.msg = StepMessage

C9_Witness ==
    /\ Resolved
    /\ variant = "ccp"
    /\ ValidDb
    /\ StepDests \cap DOMAIN argv = {}
    /\ GivenOpt("ccp_figure")
    /\ GivenOpt("coord_start")
    /\ out.status = "error"
    /\ out.msg = StepMessage

(***************************************************************************)
(* C10                                                                     *)
(***************************************************************************)
ExclusiveMessage ==
    <<"Error: cannot use --linear and --phase at the same time">>

(* C10: in the CCP variant --linear together with --phase makes resolution *)
(* fail; with a valid station database and a step flag other than --load   *)
(* the failure is the error about --linear and --phase.                    *)
C10_LinearPhaseFail ==
    /\ Resolved
    /\ variant = "ccp"
    /\ GivenOpt("linear")
    /\ GivenOpt("phase")
    => /\ Failed
       /\ /\ ValidDb
          /\ ~GivenOpt("load")
          /\ StepDests \cap DOMAIN argv # {}
          => out.status = "error" /\ out.msg = ExclusiveMessage

C10_Witness ==
    /\ Resolved
    /\ variant = "ccp"
    /\ ValidDb
    /\ GivenOpt("linear")
    /\ GivenOpt("phase")
    /\ GivenOpt("gccp")
    /\ out.status = "error"
    /\ out.msg = ExclusiveMessage

(***************************************************************************)
(* C11                                                                     *)
(***************************************************************************)
NoStackingGiven == ~GivenOpt("linear") /\ ~GivenOpt("phase")

(* C11 as stated: in the CCP variant, with neither --linear nor --phase, a *)
(* successful resolution has linear = true if --ccp is requested, phase =  *)
(* true if --gccp is requested, and both false if neither is requested.    *)
C11_AsStated ==
    Ok /\ variant = "ccp" /\ NoStackingGiven
       => /\ GivenOpt("ccp") => out.opts.linear
          /\ GivenOpt("gccp") => out.opts.phase
          /\ ~GivenOpt("ccp") /\ ~GivenOpt("gccp")
             => ~out.opts.linear /\ ~out.opts.phase

(* C11, amended: in the CCP variant, with neither --linear nor --phase, a  *)
(* successful resolution has linear = true and phase = false if --ccp is   *)
(* requested (with or without --gccp), phase = true and linear = false if  *)
(* --gccp is requested without --ccp, and both false if neither is         *)
(* requested.                                                              *)
C11_DefaultStacking ==
    Ok /\ variant = "ccp" /\ NoStackingGiven
       => /\ GivenOpt("ccp") => out.opts.linear /\ ~out.opts.phase
          /\ GivenOpt("gccp") /\ ~GivenOpt("ccp")
             => out.opts.phase /\ ~out.opts.linear
          /\ ~GivenOpt("ccp") /\ ~GivenOpt("gccp")
             => ~out.opts.linear /\ ~out.opts.phase

C11_Witness ==
    /\ Ok
    /\ variant = "ccp"
    /\ NoStackingGiven
    /\ GivenOpt("gccp")
    /\ ~GivenOpt("ccp")
    /\ out.opts.phase
    /\ ~out.opts.linear

(***************************************************************************)
(* C12                                                                     *)
(***************************************************************************)
(* C12: in the plot variant with a valid station database and otherwise    *)
(* default options, resolution fails with both --nbaz and --nslow, fails   *)
(* with neither, and succeeds with exactly one of them (any integer, 0     *)
(* included).                                                              *)
C12_ExactlyOneBin ==
    /\ Resolved
    /\ variant = "plot"
    /\ ValidDb
    /\ DOMAIN argv \subseteq {"nbaz", "nslow"}
    => /\ GivenOpt("nbaz") /\ GivenOpt("nslow") => Failed
       /\ ~GivenOpt("nbaz") /\ ~GivenOpt("nslow") => Failed
       /\ GivenOpt("nbaz") # GivenOpt("nslow") => Ok

(***************************************************************************)
(* C13                                                                     *)
(***************************************************************************)
SnrWarning ==
    [text |-> <<"SNR window > data window. Defaulting to data ",
                "window minus 10 sec.">>]

GivenDtSnr == IF GivenOpt("dt_snr") THEN argv["dt_snr"] ELSE Num(30)

GivenDts == IF GivenOpt("dts") THEN argv["dts"] ELSE Num(150)

(* C13: in the event-download variant dt_snr > dts does not fail: a        *)
(* command line that gives only --dt-snr and --dts with a valid station    *)
(* database succeeds; a successful resolution with dt_snr > dts has        *)
(* printed the warning and returns dt_snr = dts - 10 with dts unchanged,   *)
(* and with dt_snr <= dts it returns dt_snr unchanged without the warning. *)
C13_SnrWindowClamp ==
    /\ Resolved
    /\ variant = "calc"
    => /\ ValidDb /\ DOMAIN argv \subseteq {"dt_snr", "dts"} => Ok
       /\ Ok /\ lt(GivenDts, GivenDtSnr)
          => /\ out.opts.dt_snr = minus(GivenDts, Num(10))
             /\ out.opts.dts = GivenDts
             /\ Printed(SnrWarning)
       /\ Ok /\ le(GivenDtSnr, GivenDts)
          => /\ out.opts.dt_snr = GivenDtSnr
             /\ out.opts.dts = GivenDts
             /\ ~Printed(SnrWarning)

C13_Witness ==
    /\ Ok
    /\ variant = "calc"
    /\ GivenOpt("dt_snr")
    /\ GivenOpt("dts")
    /\ argv["dt_snr"] = Num(40)
    /\ argv["dts"] = Num(30)
    /\ out.opts.dt_snr = Num(20)
    /\ out.opts.dts = Num(30)
    /\ Printed(SnrWarning)

(***************************************************************************)
(* C14, C15                                                                *)
(***************************************************************************)
(* Every option of the command line is one the variant's parser declares   *)
(* (optparse rejects any other before the resolver's own checks run).      *)
DeclaredOnly == variant = "recalc" => ~GivenOpt("ovr")

NeedDatabase == <<"Need station database file">>

MissingInput(path) == <<"Input file ", path, " does not exist">>

(* C14: in each variant, whatever declared options are given, a call with  *)
(* zero or with two or more positional arguments ends in the usage error   *)
(* "Need station database file", and a call that ends otherwise had        *)
(* exactly one positional argument.                                        *)
C14_OnePositional ==
    /\ Resolved
    /\ DeclaredOnly
    => /\ Len(args) # 1
          => /\ out.status = "error"
             /\ out.msg = NeedDatabase
       /\ Len(args) = 1
          => ~(out.status = "error" /\ out.msg = NeedDatabase)

C14_Witness ==
    /\ Resolved
    /\ DeclaredOnly
    /\ Len(args) = 2
    /\ exist(args[1])
    /\ Cardinality(DOMAIN argv) = MaxOpts
    /\ out.status = "error"
    /\ out.msg = NeedDatabase

(* C15: in each variant, with exactly one positional argument and only     *)
(* declared options: if the path does not exist the call ends in the       *)
(* error "Input file <path> does not exist"; if the call succeeds the      *)
(* path exists and the second element of the returned pair is that         *)
(* positional argument; and with no option given an existing path is       *)
(* enough to succeed in every variant whose defaults pass the checks.      *)
C15_ExistingInput ==
    /\ Resolved
    /\ DeclaredOnly
    /\ Len(args) = 1
    => /\ ~exist(args[1])
          => /\ out.status = "error"
             /\ out.msg = MissingInput(args[1])
       /\ exist(args[1])
          => ~(out.status = "error" /\ out.msg = MissingInput(args[1]))
       /\ Ok => exist(args[1]) /\ out.indb = args[1]

C15_Witness ==
    /\ Resolved
    /\ DeclaredOnly
    /\ args = <<"missing.pkl">>
    /\ Cardinality(DOMAIN argv) = MaxOpts
    /\ out.status = "error"
    /\ out.msg = MissingInput("missing.pkl")

(***************************************************************************)
(* C16                                                                     *)
(***************************************************************************)
StrikeDipMessage ==
    <<"Specify both strike and dip for this type ", "of analysis">>

(* C16: in the H-k variant a command line with exactly one of --strike     *)
(* and --dip fails with a usage error (the strike/dip message once the     *)
(* database and the times are accepted); a successful resolution has       *)
(* calc_dip true when both were given, whatever their values, and false    *)
(* when neither was; and giving both, and nothing else, succeeds.          *)
C16_StrikeWithDip ==
    /\ Resolved
    /\ variant = "hk"
    => /\ GivenOpt("strike") # GivenOpt("dip")
          => /\ out.status = "error"
             /\ /\ Len(args) = 1
                /\ exist(args[1])
                /\ ~GivenOpt("startT")
                /\ ~GivenOpt("endT")
                => out.msg = StrikeDipMessage
       /\ Ok /\ GivenOpt("strike") /\ GivenOpt("dip")
          => out.opts.calc_dip = TRUE
       /\ Ok /\ ~GivenOpt("strike") /\ ~GivenOpt("dip")
          => out.opts.calc_dip = FALSE
       /\ ValidDb /\ DOMAIN argv = {"strike", "dip"} => Ok

C16_Witness ==
    /\ Ok
    /\ variant = "hk"
    /\ GivenOpt("strike")
    /\ GivenOpt("dip")
    /\ argv["strike"] = Zero(FALSE)
    /\ out.opts.calc_dip = TRUE

(***************************************************************************)
(* C17                                                                     *)
(***************************************************************************)
(* The phase the resolver sees: the one of the command line, else the      *)
(* parser's default ('allP' in get_recalc_options, None in                 *)
(* get_plot_options).                                                      *)
RequestedPhase ==
    IF GivenOpt("phase") THEN argv["phase"].v
    ELSE IF variant = "recalc" THEN "allP"
    ELSE "None"

ConcretePhases == {"P", "PP", "S", "SKS"}

(* C17: in the recalculation and plot variants a successful resolution     *)
(* has listphase = [P, PP] for phase allP, [S, SKS] for phase allS, and    *)
(* the one-element list [phase] for each of P, PP, S and SKS; no other     *)
(* phase resolves successfully.                                            *)
C17_ListPhase ==
    /\ Ok
    /\ variant \in {"recalc", "plot"}
    => /\ RequestedPhase \in ConcretePhases \cup {"allP", "allS"}
       /\ RequestedPhase = "allP"
          => out.opts.listphase = List(<<"P", "PP">>)
       /\ RequestedPhase = "allS"
          => out.opts.listphase = List(<<"S", "SKS">>)
       /\ \A p \in ConcretePhases :
            RequestedPhase = p => out.opts.listphase = List(<<p>>)

C17_Witness ==
    /\ Ok
    /\ variant = "plot"
    /\ RequestedPhase = "allS"
    /\ out.opts.listphase = List(<<"S", "SKS">>)

(***************************************************************************)
(* C18                                                                     *)
(***************************************************************************)
(* C18: a resolution that does not succeed ends through the parser's       *)
(* usage-error exit with a message; no other kind of exception reaches     *)
(* the caller.                                                             *)
C18_FailsThroughParser ==
    /\ Resolved
    /\ ~Ok
    => /\ out.status = "error"
       /\ Len(out.msg) > 0

(***************************************************************************)
(* C20                                                                     *)
(***************************************************************************)
(* C20: in the event-download variant a successful resolution has the      *)
(* missing-data fill value 0.0 when --no-data-zero was given and the       *)
(* not-a-number value when it was not; it is never a boolean.              *)
C20_FillValue ==
    /\ Ok
    /\ variant = "calc"
    => /\ GivenOpt("ndval") => out.opts.ndval = Zero(FALSE)
       /\ ~GivenOpt("ndval") => out.opts.ndval = NaN
       /\ out.opts.ndval.ty \in {"float", "nan"}

C20_Witness ==
    /\ Ok
    /\ variant = "calc"
    /\ GivenOpt("ndval")
    /\ out.opts.ndval = Zero(FALSE)

(***************************************************************************)
(* C21                                                                     *)
(***************************************************************************)
Occurrences(l, x) == Cardinality({i \in 1..Len(l) : l[i] = x})

(* l is the ascending arrangement of the numbers written in s. *)
AscendingOf(l, s) ==
    LET t == split(s.v, ",")
        given == [i \in 1..Len(t) |-> float(t[i])]
    IN  /\ Len(l) = Len(given)
        /\ \A i \in 1..Len(l) - 1 : le(l[i], l[i + 1])
        /\ \A i \in 1..Len(given) :
             Occurrences(l, given[i]) = Occurrences(given, given[i])

(* C21: in the H-k variant a successful resolution with --weights given    *)
(* has the three supplied numbers in ascending order as its weights,       *)
(* whatever order they were supplied in; without --weights the weights     *)
(* are [0.5, 2.0, -1.0] in that order.                                     *)
C21_WeightsSorted ==
    /\ Ok
    /\ variant = "hk"
    => /\ GivenOpt("weights")
          => /\ out.opts.weights.ty = "list"
             /\ Len(out.opts.weights.v) = 3
       /\ NumbersGiven("weights", 3)
          => AscendingOf(out.opts.weights.v, argv["weights"])
       /\ ~GivenOpt("weights")
          => IsList(out.opts.weights, DefaultWeights)

C21_Witness ==
    /\ Ok
    /\ variant = "hk"
    /\ GivenOpt("weights")
    /\ argv["weights"] = Sdec
    /\ IsList(out.opts.weights,
              <<DefaultWeights[3], DefaultWeights[1], DefaultWeights[2]>>)

(***************************************************************************)
(* C22                                                                     *)
(***************************************************************************)
(* The parser refused the command line for an option it does not declare.  *)
Rejected ==
    /\ out.status = "error"
    /\ out.msg \in {<<"no such option: ", "-O">>,
                    <<"no such option: ", "--overwrite">>}

(* C22 as stated: every variant accepts -O/--overwrite, and a successful   *)
(* resolution with -O has the overwrite flag true.                         *)
C22_AsStated ==
    /\ Resolved
    /\ GivenOpt("ovr")
    => /\ ~Rejected
       /\ Ok => out.opts.ovr = TRUE

(* C22, amended: every variant accepts --keys and -v/-V/--verbose; every   *)
(* variant but the recalculation one accepts -O/--overwrite, and there a   *)
(* successful resolution has the overwrite flag true exactly when -O was   *)
(* given; the recalculation parser declares no -O and refuses a command    *)
(* line that has it.                                                       *)
C22_CommonFlags ==
    Resolved
    => /\ variant = "recalc" /\ GivenOpt("ovr") => Rejected
       /\ variant # "recalc" \/ ~GivenOpt("ovr") => ~Rejected
       /\ Ok /\ variant # "recalc" => out.opts.ovr = GivenOpt("ovr")
       /\ Ok /\ variant = "recalc" => "ovr" \notin DOMAIN out.opts
       /\ Ok => out.opts.verb = GivenOpt("verb")
       /\ Ok => out.opts.stkeys.ty = IF GivenOpt("stkeys") THEN "list"
                                     ELSE "str"

C22_Witness ==
    /\ Ok
    /\ variant = "hk"
    /\ DOMAIN argv = {"stkeys", "verb", "ovr"}
    /\ out.opts.ovr = TRUE
    /\ out.opts.verb = TRUE

(***************************************************************************)
(* C23                                                                     *)
(***************************************************************************)
PhaseMessage ==
    <<"Error: choose between 'P', 'PP', 'allP', 'S', 'SKS' and ", "'allS'.">>

(* C23: in the plot variant without --phase the phase is 'allP': the       *)
(* resolution does not fail on the phase check, and when it succeeds the   *)
(* listphase is [P, PP].                                                   *)
C23_PlotPhaseDefault ==
    /\ Resolved
    /\ variant = "plot"
    /\ ~GivenOpt("phase")
    => /\ ~(out.status = "error" /\ out.msg = PhaseMessage)
       /\ Ok => /\ out.opts.phase = Str("allP")
                /\ out.opts.listphase = List(<<"P", "PP">>)

(***************************************************************************)
(* C24                                                                     *)
(***************************************************************************)
(* C24: in the CCP variant no successful resolution returns a record with  *)
(* save_figure true and ccp_figure false.                                  *)
C24_SaveNeedsFigure ==
    /\ Ok
    /\ variant = "ccp"
    => ~(out.opts.save_figure /\ ~out.opts.ccp_figure)

(***************************************************************************)
(* C25                                                                     *)
(***************************************************************************)
(* C25: in the CCP variant a successful resolution has, without --cbound,  *)
(* the colour bound 0.05 when --ccp is requested and 0.015 when --gccp is  *)
(* requested, and with --cbound the supplied value, 0 included.            *)
C25_ColourBound ==
    /\ Ok
    /\ variant = "ccp"
    => /\ ~GivenOpt("cbound") /\ GivenOpt("ccp") /\ ~GivenOpt("gccp")
          => out.opts.cbound = Literal(<<"0", ".", "0", "5">>)
       /\ ~GivenOpt("cbound") /\ GivenOpt("gccp") /\ ~GivenOpt("ccp")
          => out.opts.cbound = Literal(<<"0", ".", "0", "1", "5">>)
       /\ GivenOpt("cbound") => out.opts.cbound = argv["cbound"]

(***************************************************************************)
(* C26                                                                     *)
(***************************************************************************)
RequestedNbaz == IF GivenOpt("nbaz") THEN argv["nbaz"] ELSE Integer(36)

(* C26 as stated: in the H-k variant a successful resolution has nbaz      *)
(* equal to the supplied --nbaz, or 36 without it, whether or not          *)
(* --strike and --dip are given.                                           *)
C26_AsStated ==
    /\ Ok
    /\ variant = "hk"
    => out.opts.nbaz = RequestedNbaz

(* C26, amended: in the H-k variant a successful resolution with --strike  *)
(* and --dip has nbaz equal to the supplied --nbaz, or 36 without it; a    *)
(* successful resolution without --strike and --dip has nbaz None,         *)
(* whatever --nbaz was supplied.                                           *)
C26_NbazWithDip ==
    /\ Ok
    /\ variant = "hk"
    => /\ GivenOpt("strike") /\ GivenOpt("dip")
          => out.opts.nbaz = RequestedNbaz
       /\ ~GivenOpt("strike") /\ ~GivenOpt("dip")
          => out.opts.nbaz = None

C26_Witness ==
    /\ Ok
    /\ variant = "hk"
    /\ ~GivenOpt("strike")
    /\ ~GivenOpt("dip")
    /\ GivenOpt("nbaz")
    /\ argv["nbaz"] = Integer(12)
    /\ out.opts.nbaz = None

(***************************************************************************)
(* C28                                                                     *)
(***************************************************************************)
InputErrors == {NeedDatabase, MissingInput("missing.pkl")}

(* C28: in every variant, for a command line of declared options, the      *)
(* count of positional arguments is checked first and the existence of the *)
(* file second, before any option is validated, defaulted or warned about: *)
(* with a wrong count the outcome is the "Need station database file"      *)
(* error even if the first positional is missing; with one positional that *)
(* does not exist it is the "Input file ... does not exist" error; in both *)
(* cases nothing was printed, whatever options, valid or not, were given;  *)
(* and any other failure or any output comes with exactly one existing     *)
(* positional.                                                             *)
C28_InputsFirst ==
    /\ Resolved
    /\ DeclaredOnly
    => /\ Len(args) # 1
          => /\ out.status = "error"
             /\ out.msg = NeedDatabase
             /\ out.stdout = <<>>
       /\ Len(args) = 1 /\ ~exist(args[1])
          => /\ out.status = "error"
             /\ out.msg = MissingInput(args[1])
             /\ out.stdout = <<>>
       /\ (out.stdout # <<>> \/ (Failed /\ out.msg \notin InputErrors))
          => Len(args) = 1 /\ exist(args[1])

C28_Witness ==
    /\ Resolved
    /\ variant = "calc"
    /\ args = <<"missing.pkl">>
    /\ GivenOpt("startT")
    /\ argv["startT"] = Str("yesterday")
    /\ GivenOpt("dt_snr")
    /\ GivenOpt("dts")
    /\ lt(argv["dts"], argv["dt_snr"])
    /\ out.status = "error"
    /\ out.msg = MissingInput("missing.pkl")
    /\ out.stdout = <<>>

(***************************************************************************)
(* C29                                                                     *)
(***************************************************************************)
(* C29: in the event-download variant a successful resolution returns the  *)
(* --mindist and the --maxdist the user supplied, 0 included; the default  *)
(* of the phase replaces only a bound that was not supplied.               *)
C29_SuppliedDistances ==
    /\ Ok
    /\ variant = "calc"
    => /\ GivenOpt("mindist") => out.opts.mindist = argv["mindist"]
       /\ GivenOpt("maxdist") => out.opts.maxdist = argv["maxdist"]
       /\ ~GivenOpt("mindist")
          => out.opts.mindist = dist_range(GivenPhase)[1]
       /\ ~GivenOpt("maxdist")
          => out.opts.maxdist = dist_range(GivenPhase)[2]

(***************************************************************************)
(* C30                                                                     *)
(***************************************************************************)
FigureMessage ==
    <<"Error: Cannot produce Figure without specifying the ",
      "type of stacking [--ccp or --gccp].">>

(* C30: in the CCP variant every successful resolution with ccp_figure     *)
(* true has ccp or gccp true; a command line with --figure and without     *)
(* --ccp and --gccp fails, and it fails with the figure error when it      *)
(* passes the earlier checks with the step flag --prep or --prestack.      *)
C30_FigureNeedsStack ==
    /\ Resolved
    /\ variant = "ccp"
    => /\ Ok /\ out.opts.ccp_figure => out.opts.ccp \/ out.opts.gccp
       /\ GivenOpt("ccp_figure") /\ ~GivenOpt("ccp") /\ ~GivenOpt("gccp")
          => /\ Failed
             /\ /\ ValidDb
                /\ GivenOpt("prep") \/ GivenOpt("prestack")
                /\ ~GivenOpt("load")
                /\ ~(GivenOpt("linear") /\ GivenOpt("phase"))
                => out.msg = FigureMessage

C30_Witness ==
    /\ Resolved
    /\ variant = "ccp"
    /\ ValidDb
    /\ GivenOpt("ccp_figure")
    /\ GivenOpt("prep")
    /\ ~GivenOpt("ccp")
    /\ ~GivenOpt("gccp")
    /\ out.status = "error"
    /\ out.msg = FigureMessage

====
